---- MODULE Spec2Model ----
(***************************************************************************)
(* linux-utcp: the collectors of src/src/linux_utcp/commands/ (process.py, *)
(* network.py, system.py, service.py) and the command-line wrapper of      *)
(* cli.py that prints what they return, as a state machine.                *)
(*                                                                         *)
(* One behaviour is one invocation of one collector (op), followed by the  *)
(* wrapper's output.  For the process collectors the process table is the  *)
(* environment: processes exit or turn zombie while the collector runs,    *)
(* and psutil answers every query from the table as it is at the moment of *)
(* the call.  For the other collectors sys holds what the operating system *)
(* answers (tables, files, the outcome of each external command); it is    *)
(* chosen at the start and only read.                                      *)
(*                                                                         *)
(* Percentages are integers.  A raw sample is in thousandths of a percent  *)
(* (3250 is 3.25%); round(x, 1) yields tenths (32 is 3.2%) and round(x, 2) *)
(* hundredths, both rounding half to even as Python's round does.  Text is *)
(* held as strings and taken apart as Python's str methods do.             *)
(***************************************************************************)
EXTENDS Integers, Sequences, FiniteSets, TLC

VARIABLES
    op,             \* the collector this invocation runs
    pc,             \* position in the collector's code
    procState,      \* pid -> "alive" | "zombie" | "gone": the process table
    table,          \* list_processes: pids in the order process_iter yields them
    idx,            \* list_processes: index in table of the current proc
    info,           \* list_processes: proc.info of the current proc
    cpu_percent,    \* list_processes: the local of line 36
    all_processes,  \* list_processes: the local of line 27
    result,         \* the dict the collector builds and returns
    raced,          \* pids that exited or turned zombie between enumeration and sampling
    restricted,     \* pids for which psutil reported a denied field
    sampled,        \* pids whose cpu and memory samples both returned
    pid,            \* get_process_info: the argument
    queries,        \* get_process_info: the psutil calls issued, with their outcomes
    sys,            \* what the operating system answers to the other collectors
    arg,            \* the arguments of the service collectors
    loc,            \* the locals of the collector that is running
    calls,          \* the external commands run so far, each an argv
    err,            \* the exception that left the collector, if one did
    stdout,         \* what the command-line wrapper wrote to standard output
    stderr,         \* what it wrote to standard error
    exit            \* the exit status of the command, once it has ended

vars == <<op, pc, procState, table, idx, info, cpu_percent, all_processes,
          result, raced, restricted, sampled, pid, queries,
          sys, arg, loc, calls, err, stdout, stderr, exit>>

listVars == <<table, idx, info, cpu_percent, all_processes, sampled>>
infoVars == <<pid, queries>>
procVars == <<procState, raced, restricted, listVars, infoVars>>
extVars == <<sys, arg, loc, calls>>
cliVars == <<stdout, stderr, exit>>

-----------------------------------------------------------------------------
(* Bounds of the model *)

\* processes of a small process table (every order, every outcome)
MaxProcs == 2
\* freely behaving processes enumerated after the stable ones of a large table
MaxTail == 1
\* stable processes of a large table beyond the truncation limit
MaxExtra == 1
\* sockets of the socket table
MaxSocks == 2
\* network interfaces
MaxIfaces == 2
\* partitions of the mount table
MaxMounts == 2

(* Program constants *)

\* all_processes[:100]
TopN == 100

-----------------------------------------------------------------------------
(* Values *)

Min(a, b) == IF a <= b THEN a ELSE b
Max(a, b) == IF a >= b THEN a ELSE b

\* Python's None and a present value
NONE == <<>>
Some(v) == <<v>>

\* round(x, digits) on a sample held in thousandths: n / unit rounded half to even
RoundHalfEven(n, unit) ==
    LET q == n \div unit
        r == n % unit
    IN  IF 2 * r < unit THEN q
        ELSE IF 2 * r > unit THEN q + 1
        ELSE IF q % 2 = 0 THEN q ELSE q + 1

\* round(x, 1): thousandths -> tenths
Round1(x) == RoundHalfEven(x, 100)
\* round(x, 2): thousandths -> hundredths
Round2(x) == RoundHalfEven(x, 10)

\* result[k] = v on a dict
Put(r, k, v) == [x \in DOMAIN r \cup {k} |-> IF x = k THEN v ELSE r[x]]

\* ' '.join(argv)
RECURSIVE Join(_)
Join(argv) ==
    IF argv = <<>> THEN ""
    ELSE IF Len(argv) = 1 THEN argv[1]
    ELSE argv[1] \o " " \o Join(Tail(argv))

-----------------------------------------------------------------------------
(* Strings, with the methods of Python's str the collectors use *)

CharAt(s, i) == SubSeq(s, i, i)
From(s, i) == SubSeq(s, i, Len(s))

\* s.endswith(t)
EndsWith(s, t) == Len(s) >= Len(t) /\ SubSeq(s, Len(s) - Len(t) + 1, Len(s)) = t

\* the places where t occurs in s; t in s; s.find(t) + 1
Occurrences(s, t) == {i \in 1..(Len(s) - Len(t) + 1) : SubSeq(s, i, i + Len(t) - 1) = t}
Contains(s, t) == Occurrences(s, t) # {}
IndexOf(s, t) ==
    IF Contains(s, t)
    THEN CHOOSE i \in Occurrences(s, t) : \A j \in Occurrences(s, t) : i <= j
    ELSE 0

\* s with each character found in from replaced by the one at its place in to
RECURSIVE MapStr(_, _, _)
MapStr(s, from, to) ==
    IF s = "" THEN ""
    ELSE (IF Contains(from, Head(s)) THEN CharAt(to, IndexOf(from, Head(s))) ELSE Head(s))
             \o MapStr(Tail(s), from, to)
\* s.lower(), s.upper()
Lower(s) == MapStr(s, "ABCDEFGHIJKLMNOPQRSTUVWXYZ", "abcdefghijklmnopqrstuvwxyz")
Upper(s) == MapStr(s, "abcdefghijklmnopqrstuvwxyz", "ABCDEFGHIJKLMNOPQRSTUVWXYZ")

\* s.split(sep)
RECURSIVE Split(_, _)
Split(s, sep) ==
    IF Contains(s, sep)
    THEN LET i == IndexOf(s, sep)
         IN  <<SubSeq(s, 1, i - 1)>> \o Split(From(s, i + Len(sep)), sep)
    ELSE <<s>>
\* s.split(sep, 1)
Split1(s, sep) ==
    IF Contains(s, sep)
    THEN LET i == IndexOf(s, sep)
         IN  <<SubSeq(s, 1, i - 1), From(s, i + Len(sep))>>
    ELSE <<s>>

Whitespace == " \t\n"
\* s.lstrip(chars), s.rstrip(chars), s.strip(chars); s.strip()
RECURSIVE LStrip(_, _)
LStrip(s, chars) ==
    IF s # "" /\ Contains(chars, Head(s)) THEN LStrip(Tail(s), chars) ELSE s
RECURSIVE RStrip(_, _)
RStrip(s, chars) ==
    IF s # "" /\ Contains(chars, CharAt(s, Len(s)))
    THEN RStrip(SubSeq(s, 1, Len(s) - 1), chars) ELSE s
StripChars(s, chars) == RStrip(LStrip(s, chars), chars)
Strip(s) == StripChars(s, Whitespace)

\* s.split(): the maximal runs of characters that are not whitespace
RECURSIVE SplitWs(_)
SplitWs(s) ==
    LET t == LStrip(s, Whitespace)
        ends == {i \in 1..Len(t) : Contains(Whitespace, CharAt(t, i))}
        n == IF ends = {} THEN Len(t) + 1
             ELSE CHOOSE i \in ends : \A j \in ends : i <= j
    IN  IF t = "" THEN <<>>
        ELSE <<SubSeq(t, 1, n - 1)>> \o SplitWs(From(t, n))

-----------------------------------------------------------------------------
(* The process table and what psutil reports about it *)

PidOf(i) == 4 * i - 3
FreePids == {PidOf(i) : i \in 1..Max(MaxProcs, MaxTail)}
IsFiller(p) == p > 100
FillerTable(n) == [j \in 1..n |-> 100 + j]

\* every order of every subset of the first n free pids
Orders(n) ==
    UNION {{f \in [1..Cardinality(T) -> T] : \A i, j \in DOMAIN f : f[i] = f[j] => i = j} :
           T \in SUBSET {PidOf(i) : i \in 1..n}}

SmallTables == Orders(MaxProcs)
BigTables == {FillerTable(n) \o t : n \in (TopN - 1)..(TopN + MaxExtra), t \in Orders(MaxTail)}

\* psutil exceptions; ZombieProcess is a subclass of NoSuchProcess, and of the
\* built-in ones PermissionError and FileNotFoundError are subclasses of OSError
Excs == {"NoSuchProcess", "ZombieProcess", "AccessDenied", "OSError"}
IsInstance(exc, cls) ==
    \/ exc = cls
    \/ cls = "Exception"
    \/ exc = "ZombieProcess" /\ cls = "NoSuchProcess"
    \/ exc \in {"PermissionError", "FileNotFoundError"} /\ cls = "OSError"

Ok(v) == [ok |-> TRUE, val |-> v]
Raise(e) == [ok |-> FALSE, exc |-> e]

StateOf(p) ==
    IF IsFiller(p) THEN "alive"
    ELSE IF p \in DOMAIN procState THEN procState[p]
    ELSE "gone"

ProcName == "proc"
ProcArgv == <<"proc", "-d">>
FullInfo(p) ==
    [pid |-> p, name |-> ProcName, username |-> Some("root"),
     status |-> "sleeping", cmdline |-> Some(ProcArgv)]

\* proc.info as process_iter(attrs) fills it: as_dict() stores None for an
\* attribute whose read raised AccessDenied or ZombieProcess
InfoChoices(p) ==
    IF StateOf(p) = "zombie"
    THEN {[FullInfo(p) EXCEPT !.status = "zombie", !.cmdline = NONE]}
    ELSE IF IsFiller(p) THEN {FullInfo(p)}
    ELSE {FullInfo(p),
          [FullInfo(p) EXCEPT !.username = NONE],
          [FullInfo(p) EXCEPT !.cmdline = NONE],
          [FullInfo(p) EXCEPT !.cmdline = Some(<<>>)]}

\* an attribute psutil could not read for lack of permission
InfoDenied(i) ==
    i.status # "zombie" /\ (i.username = NONE \/ i.cmdline = NONE)

\* proc.cpu_percent(interval=0), in thousandths; above 100% on several cores
CpuSamples == {0, 3250, 250000}
\* proc.memory_percent(), in thousandths
MemSamples == {1250}

Sample(p, values, filler) ==
    IF StateOf(p) = "gone" THEN {Raise("NoSuchProcess")}
    ELSE IF StateOf(p) = "zombie" THEN {Raise("ZombieProcess")}
    ELSE IF IsFiller(p) THEN {Ok(filler)}
    ELSE {Ok(v) : v \in values} \cup {Raise("AccessDenied")}

CpuOutcomes(p) ==
    Sample(p, CpuSamples, IF p % 3 = 0 THEN 0 ELSE IF p % 3 = 1 THEN 3250 ELSE 250000)
MemOutcomes(p) == Sample(p, MemSamples, 1250)

-----------------------------------------------------------------------------
(* list_processes *)

\* lines 39-47
MakeEntry(pinfo, cpu, mem) ==
    [pid |-> pinfo.pid,
     user |-> IF pinfo.username # NONE /\ pinfo.username[1] # ""
              THEN pinfo.username[1] ELSE "unknown",
     cpu_percent |-> Round1(cpu),
     memory_percent |-> Round1(mem),
     status |-> pinfo.status,
     name |-> pinfo.name,
     command |-> IF pinfo.cmdline # NONE /\ pinfo.cmdline[1] # <<>>
                 THEN Join(pinfo.cmdline[1]) ELSE pinfo.name]

\* line 50 naming AccessDenied alone
ListCaughtDeniedOnly(exc) == IsInstance(exc, "AccessDenied")

\* line 50
ListCaught(exc) ==
    \/ IsInstance(exc, "NoSuchProcess")
    \/ IsInstance(exc, "AccessDenied")
    \/ IsInstance(exc, "ZombieProcess")

\* those entries in reverse order, as sorting ascending and reversing leaves them
EntriesWithCpuReversed(s, c) ==
    LET b == SelectSeq(s, LAMBDA e : e.cpu_percent = c)
    IN  [i \in 1..Len(b) |-> b[Len(b) + 1 - i]]

\* the entries of s whose cpu_percent is c, in the order they have in s
EntriesWithCpu(s, c) == SelectSeq(s, LAMBDA e : e.cpu_percent = c)

\* the entries of s with a cpu_percent in cpus, greatest cpu_percent first
RECURSIVE SortedDescOver(_, _)
SortedDescOver(s, cpus) ==
    IF cpus = {} THEN <<>>
    ELSE LET m == CHOOSE c \in cpus : \A d \in cpus : d <= c
         IN  EntriesWithCpu(s, m) \o SortedDescOver(s, cpus \ {m})

RECURSIVE SortedAscOver(_, _)
SortedAscOver(s, cpus) ==
    IF cpus = {} THEN <<>>
    ELSE LET m == CHOOSE c \in cpus : \A d \in cpus : c <= d
         IN  EntriesWithCpu(s, m) \o SortedAscOver(s, cpus \ {m})

\* the sort without reverse=True
SortByCpuAsc(s) == SortedAscOver(s, {s[i].cpu_percent : i \in 1..Len(s)})

\* list.sort(key=cpu_percent, reverse=True): a stable sort, so the result is
\* the entries grouped by cpu_percent, greatest first, each group in the
\* order it had in the list
SortByCpuDesc(s) == SortedDescOver(s, {s[i].cpu_percent : i \in 1..Len(s)})

\* all_processes[:100]
Truncate(s) == SubSeq(s, 1, Min(TopN, Len(s)))

\* the count taken after the truncation
TotalCountOfReturned(s) == Min(TopN, Len(s))

\* len(all_processes)
TotalCount(s) == Len(s)

ListStart ==
    /\ op = "list_processes" /\ pc = "start"
    /\ result' = [k \in {"processes"} |-> <<>>]
    /\ all_processes' = <<>>
    /\ idx' = 1
    /\ pc' = "iter"
    /\ UNCHANGED <<extVars, cliVars, err, op, procState, table, info, cpu_percent, raced, restricted, sampled, infoVars>>

\* the for statement of line 30 yields the next proc; a pid that is gone is not yielded
ListIter ==
    /\ op = "list_processes" /\ pc = "iter" /\ idx <= Len(table)
    /\ LET p == table[idx] IN
        IF StateOf(p) = "gone"
        THEN /\ idx' = idx + 1
             /\ UNCHANGED <<pc, info, restricted>>
        ELSE \E i \in InfoChoices(p) :
             /\ info' = i
             /\ restricted' = IF InfoDenied(i) THEN restricted \cup {p} ELSE restricted
             /\ pc' = "cpu"
             /\ UNCHANGED idx
    /\ UNCHANGED <<extVars, cliVars, err, op, procState, table, cpu_percent, all_processes, result, raced, sampled, infoVars>>

\* line 36
ListSampleCpu ==
    /\ op = "list_processes" /\ pc = "cpu"
    /\ \E o \in CpuOutcomes(table[idx]) :
        /\ IF o.ok
           THEN /\ cpu_percent' = o.val
                /\ pc' = "mem"
                /\ UNCHANGED <<idx, restricted, err>>
           ELSE /\ pc' = IF ListCaught(o.exc) THEN "iter" ELSE "raised"
                /\ err' = IF ListCaught(o.exc) THEN err ELSE Some(o.exc)
                /\ idx' = idx + 1
                /\ restricted' = IF o.exc = "AccessDenied"
                                 THEN restricted \cup {table[idx]} ELSE restricted
                /\ UNCHANGED cpu_percent
    /\ UNCHANGED <<extVars, cliVars, op, procState, table, info, all_processes, result, raced, sampled, infoVars>>

\* lines 37-48
ListSampleMem ==
    /\ op = "list_processes" /\ pc = "mem"
    /\ \E o \in MemOutcomes(table[idx]) :
        /\ IF o.ok
           THEN /\ all_processes' = Append(all_processes, MakeEntry(info, cpu_percent, o.val))
                /\ sampled' = sampled \cup {table[idx]}
                /\ pc' = "iter"
                /\ UNCHANGED <<restricted, err>>
           ELSE /\ pc' = IF ListCaught(o.exc) THEN "iter" ELSE "raised"
                /\ err' = IF ListCaught(o.exc) THEN err ELSE Some(o.exc)
                /\ restricted' = IF o.exc = "AccessDenied"
                                 THEN restricted \cup {table[idx]} ELSE restricted
                /\ UNCHANGED <<all_processes, sampled>>
        /\ idx' = idx + 1
    /\ UNCHANGED <<extVars, cliVars, op, procState, table, info, cpu_percent, result, raced, infoVars>>

\* lines 54-59
ListFinish ==
    /\ op = "list_processes" /\ pc = "iter" /\ idx > Len(table)
    /\ LET sorted == SortByCpuDesc(all_processes) IN
        /\ all_processes' = sorted
        /\ result' = [processes |-> Truncate(sorted), total_count |-> TotalCount(sorted)]
    /\ pc' = "done"
    /\ UNCHANGED <<extVars, cliVars, err, op, procState, table, idx, info, cpu_percent, raced, restricted, sampled, infoVars>>

-----------------------------------------------------------------------------
(* get_process_info *)

DetailFields ==
    {"name", "exe", "cmdline", "status", "user", "pid", "ppid", "cpu_percent",
     "memory_rss", "memory_vms", "memory_percent", "created", "cpu_time_user",
     "cpu_time_system", "threads", "open_files"}

\* the psutil calls of lines 97-128 in program order; "exe?" and "cmdline?" are
\* the reads in the conditions of lines 101 and 102, "cmdline_name" the
\* proc.name() of line 102's else branch
InfoSteps ==
    <<"Process", "name", "exe?", "exe", "cmdline?", "cmdline", "cmdline_name",
      "status", "username", "ppid", "cpu_percent", "memory_info", "memory_percent",
      "create_time", "cpu_times", "num_threads", "open_files">>

MethodOf(step) ==
    CASE step = "exe?" -> "exe"
      [] step = "cmdline?" -> "cmdline"
      [] step = "cmdline_name" -> "name"
      [] OTHER -> step

\* what the call returns for a live process the caller may read
Answers(step) ==
    CASE step = "Process" -> {TRUE}
      [] step \in {"name", "cmdline_name"} -> {ProcName}
      [] step \in {"exe?", "exe"} -> {"/usr/bin/proc", ""}
      [] step \in {"cmdline?", "cmdline"} -> {ProcArgv, <<>>}
      [] step = "status" -> {"sleeping"}
      [] step = "username" -> {"root"}
      [] step = "ppid" -> {1}
      [] step = "cpu_percent" -> CpuSamples
      [] step = "memory_info" -> {[rss |-> 4096, vms |-> 8192]}
      [] step = "memory_percent" -> MemSamples
      [] step = "create_time" -> {0, 86400}
      [] step = "cpu_times" -> {[user |-> 1005, system |-> 15]}
      [] step = "num_threads" -> {1}
      [] step = "open_files" -> {<<>>, <<"/a", "/b">>}

\* psutil.Process(pid) only looks the pid up; every other call reads the process
Outcomes(step, p) ==
    IF StateOf(p) = "gone" THEN {Raise("NoSuchProcess")}
    ELSE IF step = "Process" THEN {Ok(TRUE)}
    ELSE IF StateOf(p) = "zombie" THEN {Raise("ZombieProcess")}
    ELSE {Ok(v) : v \in Answers(step)} \cup {Raise("AccessDenied"), Raise("OSError")}

\* datetime.fromtimestamp(t).strftime('%Y-%m-%d %H:%M:%S'), UTC
FormatTime(t) ==
    CASE t = 0 -> "1970-01-01 00:00:00"
      [] t = 86400 -> "1970-01-02 00:00:00"

\* line 92 rejecting negative pids only
ValidPidNonNegative(p) == p >= 0

\* line 92
ValidPid(p) == p >= 1

\* line 93
InvalidPidMessage(p) == "Invalid PID: " \o ToString(p) \o " (must be >= 1)"

\* lines 132-137 without the NoSuchProcess clause
InfoErrorMessageNoNotFound(exc, p) ==
    IF IsInstance(exc, "AccessDenied")
    THEN "Access denied to process " \o ToString(p) \o " (try sudo)"
    ELSE "Error getting process info: " \o exc

\* lines 132-137: the first except clause that matches
InfoErrorMessage(exc, p) ==
    IF IsInstance(exc, "NoSuchProcess") THEN "Process " \o ToString(p) \o " not found"
    ELSE IF IsInstance(exc, "AccessDenied")
    THEN "Access denied to process " \o ToString(p) \o " (try sudo)"
    ELSE "Error getting process info: " \o exc

\* lines 132-137 as they would be without the except Exception clause
InfoCaughtPsutilOnly(exc) ==
    IsInstance(exc, "NoSuchProcess") \/ IsInstance(exc, "AccessDenied")
\* line 136
InfoCaught(exc) == IsInstance(exc, "Exception")

\* line 129 naming AccessDenied alone
OpenFilesCaughtDeniedOnly(exc) == IsInstance(exc, "AccessDenied")

\* line 129
OpenFilesCaught(exc) ==
    IsInstance(exc, "AccessDenied") \/ IsInstance(exc, "NoSuchProcess")

\* the assignments a returned value leads to, and the next call
Effect(step, r, v) ==
    CASE step = "Process" -> [r |-> r, next |-> "name"]
      [] step = "name" -> [r |-> Put(r, "name", v), next |-> "exe?"]
      [] step = "exe?" -> IF v # "" THEN [r |-> r, next |-> "exe"]
                          ELSE [r |-> Put(r, "exe", "unknown"), next |-> "cmdline?"]
      [] step = "exe" -> [r |-> Put(r, "exe", v), next |-> "cmdline?"]
      [] step = "cmdline?" -> [r |-> r, next |-> IF v # <<>> THEN "cmdline" ELSE "cmdline_name"]
      [] step = "cmdline" -> [r |-> Put(r, "cmdline", Join(v)), next |-> "status"]
      [] step = "cmdline_name" -> [r |-> Put(r, "cmdline", v), next |-> "status"]
      [] step = "status" -> [r |-> Put(r, "status", v), next |-> "username"]
      [] step = "username" -> [r |-> Put(Put(r, "user", v), "pid", pid), next |-> "ppid"]
      [] step = "ppid" -> [r |-> Put(r, "ppid", v), next |-> "cpu_percent"]
      [] step = "cpu_percent" -> [r |-> Put(r, "cpu_percent", Round1(v)), next |-> "memory_info"]
      [] step = "memory_info" ->
            [r |-> Put(Put(r, "memory_rss", v.rss), "memory_vms", v.vms),
             next |-> "memory_percent"]
      [] step = "memory_percent" ->
            [r |-> Put(r, "memory_percent", Round2(v)), next |-> "create_time"]
      [] step = "create_time" -> [r |-> Put(r, "created", FormatTime(v)), next |-> "cpu_times"]
      [] step = "cpu_times" ->
            [r |-> Put(Put(r, "cpu_time_user", Round2(v.user)),
                       "cpu_time_system", Round2(v.system)),
             next |-> "num_threads"]
      [] step = "num_threads" -> [r |-> Put(r, "threads", v), next |-> "open_files"]
      [] step = "open_files" -> [r |-> Put(r, "open_files", Len(v)), next |-> "done"]

\* lines 89-94
InfoValidate ==
    /\ op = "get_process_info" /\ pc = "start"
    /\ IF ValidPid(pid)
       THEN /\ result' = <<>>
            /\ pc' = "Process"
       ELSE /\ result' = Put(<<>>, "error", InvalidPidMessage(pid))
            /\ pc' = "done"
    /\ UNCHANGED <<extVars, cliVars, err, op, procState, raced, restricted, listVars, pid, queries>>

\* one psutil call of lines 97-125 and the statement it belongs to
InfoQuery ==
    /\ op = "get_process_info"
    /\ \E n \in 1..(Len(InfoSteps) - 1) : pc = InfoSteps[n]
    /\ \E o \in Outcomes(pc, pid) :
        /\ queries' = Append(queries, [q |-> MethodOf(pc), out |-> IF o.ok THEN "ok" ELSE o.exc])
        /\ IF o.ok
           THEN /\ result' = Effect(pc, result, o.val).r
                /\ pc' = Effect(pc, result, o.val).next
                /\ UNCHANGED err
           ELSE /\ result' = IF InfoCaught(o.exc)
                             THEN Put(result, "error", InfoErrorMessage(o.exc, pid))
                             ELSE result
                /\ pc' = IF InfoCaught(o.exc) THEN "done" ELSE "raised"
                /\ err' = IF InfoCaught(o.exc) THEN err ELSE Some(o.exc)
    /\ UNCHANGED <<extVars, cliVars, op, procState, raced, restricted, listVars, pid>>

\* lines 127-130
InfoOpenFiles ==
    /\ op = "get_process_info" /\ pc = "open_files"
    /\ \E o \in Outcomes(pc, pid) :
        /\ queries' = Append(queries, [q |-> MethodOf(pc), out |-> IF o.ok THEN "ok" ELSE o.exc])
        /\ IF o.ok
           THEN /\ result' = Effect(pc, result, o.val).r
                /\ pc' = "done"
                /\ UNCHANGED err
           ELSE IF OpenFilesCaught(o.exc)
           THEN /\ result' = Put(result, "open_files", 0)
                /\ pc' = "done"
                /\ UNCHANGED err
           ELSE /\ result' = IF InfoCaught(o.exc)
                             THEN Put(result, "error", InfoErrorMessage(o.exc, pid))
                             ELSE result
                /\ pc' = IF InfoCaught(o.exc) THEN "done" ELSE "raised"
                /\ err' = IF InfoCaught(o.exc) THEN err ELSE Some(o.exc)
    /\ UNCHANGED <<extVars, cliVars, op, procState, raced, restricted, listVars, pid>>

-----------------------------------------------------------------------------
(* get_listening_ports (commands/network.py) *)

\* conn.type of a TCP and of a UDP socket
SockStream == 1
SockDgram == 2

\* psutil.net_connections: the table, or AccessDenied for the whole of it
ConnectionsOutcomes ==
    LET
        Addr(ip, port) == [ip |-> ip, port |-> port]
        Conn(type, status, laddr, cpid) == [type |-> type, status |-> status, laddr |-> laddr, pid |-> cpid]
        \* the kinds of socket psutil.net_connections(kind='inet') reports: a TCP
        \* listener, an established TCP connection, a bound and an unbound UDP
        \* socket (psutil gives () for a missing address and None for a hidden pid)
        SocketKinds ==
            {Conn(SockStream, "LISTEN", Some(Addr("0.0.0.0", 22)), Some(1)),
             Conn(SockStream, "ESTABLISHED", Some(Addr("10.0.0.5", 22)), Some(5)),
             Conn(SockDgram, "NONE", Some(Addr("0.0.0.0", 68)), NONE),
             Conn(SockDgram, "NONE", NONE, Some(1))}
        SocketTables == UNION {[1..n -> SocketKinds] : n \in 0..MaxSocks}
    IN
    {Ok(t) : t \in SocketTables} \cup {Raise("AccessDenied")}

\* psutil.Process(pid).name() for the owner of a socket
NameOutcomes == {Ok("sshd"), Raise("NoSuchProcess"), Raise("AccessDenied")}

\* subprocess.run(['ss', '-tulnp'], check=True): the text printed, a
\* non-zero exit, or no such program
SsOutcomes ==
    LET
        \* what `ss -tulnp` prints: nothing, a header alone, a header and one socket,
        \* and a listing with a short line and a blank line among the sockets
        SsHeader == "Netid State Recv-Q Send-Q Local:Port Peer:Port Process\n"
        SsTexts ==
            {"",
             SsHeader,
             SsHeader \o "tcp LISTEN 0 128 0.0.0.0:22 0.0.0.0:*\n",
             SsHeader \o "udp UNCONN 0 0\n" \o "  \n" \o "tcp6   LISTEN 0  128  [::]:80  [::]:*  users:((\"nginx\"))\n"}
    IN
    {Ok(t) : t \in SsTexts} \cup {Raise("CalledProcessError"), Raise("FileNotFoundError")}
SsCommand == <<"ss", "-tulnp">>

\* line 107 as it would be without the test of the local address
IsListeningAnyUdp(conn) == conn.status = "LISTEN" \/ conn.type = SockDgram
\* line 107
IsListening(conn) ==
    \/ conn.status = "LISTEN"
    \/ conn.type = SockDgram /\ conn.laddr # NONE

\* lines 108-115
PortInfo(conn) ==
    [proto |-> IF conn.type = SockStream THEN "TCP" ELSE "UDP",
     local_address |-> IF conn.laddr # NONE
                       THEN conn.laddr[1].ip \o ":" \o ToString(conn.laddr[1].port)
                       ELSE "unknown",
     pid |-> IF conn.pid # NONE /\ conn.pid[1] # 0 THEN conn.pid ELSE NONE,
     program |-> NONE]

\* line 118
HasPid(conn) == conn.pid # NONE /\ conn.pid[1] # 0

\* line 122 as it would be without AccessDenied
NameCaughtGoneOnly(e) == IsInstance(e, "NoSuchProcess")
\* line 122
NameCaught(e) == IsInstance(e, "NoSuchProcess") \/ IsInstance(e, "AccessDenied")

\* line 127
PortsCaught(e) == IsInstance(e, "AccessDenied")

\* line 149 as it would be without FileNotFoundError
SsCaughtExitOnly(e) == IsInstance(e, "CalledProcessError")
\* line 149
SsCaught(e) == IsInstance(e, "CalledProcessError") \/ IsInstance(e, "FileNotFoundError")

\* lines 138-147 as they would be with the first line parsed as well
SsEntriesWithHeader(text) ==
    LET lines == Split(text, "\n")
        kept == SelectSeq(lines, LAMBDA l : Strip(l) # "" /\ Len(SplitWs(l)) >= 5)
    IN  [i \in 1..Len(kept) |->
            [proto |-> Upper(SplitWs(kept[i])[1]),
             local_address |-> SplitWs(kept[i])[5],
             pid |-> NONE,
             program |-> NONE]]
\* lines 138-147: the entries of the lines after the first
SsEntries(text) ==
    LET lines == Tail(Split(text, "\n"))
        kept == SelectSeq(lines, LAMBDA l : Strip(l) # "" /\ Len(SplitWs(l)) >= 5)
    IN  [i \in 1..Len(kept) |->
            [proto |-> Upper(SplitWs(kept[i])[1]),
             local_address |-> SplitWs(kept[i])[5],
             pid |-> NONE,
             program |-> NONE]]

\* lines 99-103
PortsQuery ==
    /\ op = "get_listening_ports" /\ pc = "start"
    /\ result' = [k \in {"listening_ports"} |-> <<>>]
    /\ IF sys.connections.ok
       THEN /\ loc' = [connections |-> sys.connections.val, i |-> 1]
            /\ pc' = "conn"
            /\ UNCHANGED err
       ELSE /\ loc' = <<>>
            /\ pc' = IF PortsCaught(sys.connections.exc) THEN "ss" ELSE "raised"
            /\ err' = IF PortsCaught(sys.connections.exc) THEN err ELSE Some(sys.connections.exc)
    /\ UNCHANGED <<op, sys, arg, calls, procVars, cliVars>>

\* lines 118-123: the program of the entry, or the exception that leaves the
\* loop for the handlers of line 127
Programs(conn) ==
    IF HasPid(conn)
    THEN {IF o.ok THEN Ok(Some(o.val))
          ELSE IF NameCaught(o.exc) THEN Ok(NONE)
          ELSE o : o \in NameOutcomes}
    ELSE {Ok(NONE)}

\* lines 105-125: one socket of the table
PortsConn ==
    /\ op = "get_listening_ports" /\ pc = "conn" /\ loc.i <= Len(loc.connections)
    /\ LET conn == loc.connections[loc.i] IN
        IF ~IsListening(conn) THEN UNCHANGED <<result, pc, err>>
        ELSE \E o \in Programs(conn) :
            IF o.ok
            THEN /\ result' = [result EXCEPT !.listening_ports =
                                Append(@, [PortInfo(conn) EXCEPT !.program = o.val])]
                 /\ UNCHANGED <<pc, err>>
            ELSE /\ pc' = IF PortsCaught(o.exc) THEN "ss" ELSE "raised"
                 /\ err' = IF PortsCaught(o.exc) THEN err ELSE Some(o.exc)
                 /\ UNCHANGED result
    /\ loc' = [loc EXCEPT !.i = @ + 1]
    /\ UNCHANGED <<op, sys, arg, calls, procVars, cliVars>>

\* lines 129-150
PortsFallback ==
    /\ op = "get_listening_ports" /\ pc = "ss"
    /\ calls' = Append(calls, SsCommand)
    /\ IF sys.ss.ok
       THEN /\ result' = [result EXCEPT !.listening_ports = @ \o SsEntries(sys.ss.val)]
            /\ pc' = "count"
            /\ UNCHANGED err
       ELSE /\ pc' = IF SsCaught(sys.ss.exc) THEN "count" ELSE "raised"
            /\ err' = IF SsCaught(sys.ss.exc) THEN err ELSE Some(sys.ss.exc)
            /\ UNCHANGED result
    /\ UNCHANGED <<op, sys, arg, loc, procVars, cliVars>>

\* lines 152-154
PortsFinish ==
    /\ op = "get_listening_ports"
    /\ \/ pc = "count"
       \/ pc = "conn" /\ loc.i > Len(loc.connections)
    /\ result' = Put(result, "total_count", Len(result.listening_ports))
    /\ pc' = "done"
    /\ UNCHANGED <<op, sys, arg, loc, calls, err, procVars, cliVars>>

-----------------------------------------------------------------------------
(* get_network_interfaces (commands/network.py) *)

\* psutil.AF_LINK, and the literals of lines 54 and 61
AF_LINK == 17
AF_INET == 2
AF_INET6 == 10

IfaceName(i) == "eth" \o ToString(i)
IfaceNames == {IfaceName(i) : i \in 1..MaxIfaces}

\* psutil.net_if_addrs(): a dict, here its items in their order
AddrTables ==
    LET
        \* a snicaddr; netmask and broadcast are None where the kernel gives none
        NicAddr(family, address, netmask, broadcast) ==
            [family |-> family, address |-> address, netmask |-> netmask, broadcast |-> broadcast]
        \* the address lists of an interface: none at all, or a MAC, an IPv4 and an
        \* IPv6 address
        AddrLists ==
            {<<>>,
             <<NicAddr(AF_LINK, "52:54:00:12:34:56", NONE, Some("ff:ff:ff:ff:ff:ff")),
               NicAddr(AF_INET, "10.0.0.2", Some("255.255.255.0"), NONE),
               NicAddr(AF_INET6, "fe80::1", NONE, NONE)>>}
    IN
    UNION {{f \in [1..Cardinality(T) -> [name : T, addrs : AddrLists]] :
                \A i, j \in DOMAIN f : f[i].name = f[j].name => i = j} :
           T \in SUBSET IfaceNames}

StatTables ==
    LET
        \* psutil.net_if_stats(): name -> snicstats
        NicStats == {[isup |-> TRUE, speed |-> 1000, mtu |-> 1500],
                     [isup |-> FALSE, speed |-> 0, mtu |-> 1500]}
    IN
    UNION {[T -> NicStats] : T \in SUBSET IfaceNames}

\* stats.get(iface_name), truthy when the name is there
HasStats(stats, name) == name \in DOMAIN stats

\* `x or ''`
OrEmpty(x) == IF x = NONE THEN "" ELSE x[1]

\* lines 40-48
IfaceHead(name, stats) ==
    [name |-> name,
     status |-> IF HasStats(stats, name) /\ stats[name].isup THEN "UP" ELSE "DOWN",
     speed |-> IF HasStats(stats, name) THEN stats[name].speed ELSE 0,
     mtu |-> IF HasStats(stats, name) THEN stats[name].mtu ELSE 0,
     ipv4_addresses |-> <<>>,
     ipv6_addresses |-> <<>>,
     mac_address |-> ""]

\* lines 51-66
RECURSIVE ParseAddrs(_, _)
ParseAddrs(iface_info, addrs) ==
    IF addrs = <<>> THEN iface_info
    ELSE LET addr == Head(addrs)
             next ==
                IF addr.family = AF_LINK
                THEN [iface_info EXCEPT !.mac_address = addr.address]
                ELSE IF addr.family = AF_INET
                THEN [iface_info EXCEPT !.ipv4_addresses =
                        Append(@, [address |-> addr.address,
                                   netmask |-> OrEmpty(addr.netmask),
                                   broadcast |-> OrEmpty(addr.broadcast)])]
                ELSE IF addr.family = AF_INET6
                THEN [iface_info EXCEPT !.ipv6_addresses =
                        Append(@, [address |-> addr.address,
                                   netmask |-> OrEmpty(addr.netmask)])]
                ELSE iface_info
         IN  ParseAddrs(next, Tail(addrs))

\* lines 33-37
IfacesStart ==
    /\ op = "get_network_interfaces" /\ pc = "start"
    /\ result' = [k \in {"interfaces"} |-> <<>>]
    /\ loc' = [addrs |-> sys.addrs, stats |-> sys.stats, i |-> 1]
    /\ pc' = "iface"
    /\ UNCHANGED <<op, sys, arg, calls, err, procVars, cliVars>>

\* lines 39-68: one item of addrs
IfacesNext ==
    /\ op = "get_network_interfaces" /\ pc = "iface" /\ loc.i <= Len(loc.addrs)
    /\ LET item == loc.addrs[loc.i] IN
        result' = [result EXCEPT !.interfaces =
                     Append(@, ParseAddrs(IfaceHead(item.name, loc.stats), item.addrs))]
    /\ loc' = [loc EXCEPT !.i = @ + 1]
    /\ UNCHANGED <<op, pc, sys, arg, calls, err, procVars, cliVars>>

\* lines 70-83
IfacesIoStats ==
    /\ op = "get_network_interfaces" /\ pc = "iface" /\ loc.i > Len(loc.addrs)
    /\ LET io_counters == sys.io IN
        result' = Put(result, "io_stats",
                      [bytes_sent |-> io_counters.bytes_sent,
                       bytes_recv |-> io_counters.bytes_recv,
                       packets_sent |-> io_counters.packets_sent,
                       packets_recv |-> io_counters.packets_recv,
                       errors_in |-> io_counters.errin,
                       errors_out |-> io_counters.errout,
                       drops_in |-> io_counters.dropin,
                       drops_out |-> io_counters.dropout])
    /\ pc' = "done"
    /\ UNCHANGED <<op, sys, arg, loc, calls, err, procVars, cliVars>>

-----------------------------------------------------------------------------
(* _human_readable_size (commands/system.py) *)

\* A byte count is held as its digits in base 1024, most significant first
\* and without a leading zero (<<1, 512>> is 1536, <<1, 0, 0, 0, 0, 0>> is
\* 1024^5), so that petabytes fit.  size_bytes after j divisions by 1024.0 is
\* the count with its last j digits behind the point; the counts used are
\* exact as floats.
Base == 1024
Units == <<"", "K", "M", "G", "T", "P">>

Sizes ==
    {<<0>>, <<1>>, <<512>>, <<1023>>,
     <<1, 0>>, <<1, 512>>, <<1, 563>>, <<1023, 972>>, <<1023, 973>>,
     <<1, 0, 0>>, <<1023, 1023, 1023>>,
     <<1, 0, 0, 0>>, <<2, 256, 0, 0, 0>>, <<1023, 1023, 0, 0, 0>>,
     <<1, 0, 0, 0, 0, 0>>, <<1023, 512, 0, 0, 0, 0>>,
     <<1, 0, 0, 0, 0, 0, 0>>, <<5, 512, 0, 0, 0, 0, 0>>}

\* the digits before and behind the point after j divisions
IntDigits(d, j) == SubSeq(d, 1, Len(d) - j)
FracDigits(d, j) == IF j > Len(d) THEN [i \in 1..(j - Len(d)) |-> 0] \o d
                    ELSE SubSeq(d, Len(d) - j + 1, Len(d))

RECURSIVE ValueOf(_)
ValueOf(d) == IF d = <<>> THEN 0 ELSE ValueOf(SubSeq(d, 1, Len(d) - 1)) * Base + d[Len(d)]

\* line 233 as it would be with <= for <
AtMost1024(d, j) ==
    \/ Len(d) - j <= 1
    \/ /\ IntDigits(d, j) = <<1, 0>>
       /\ \A i \in 1..Len(FracDigits(d, j)) : FracDigits(d, j)[i] = 0
\* line 233: abs(size_bytes) < 1024.0 after j divisions
Below1024(d, j) == Len(d) - j <= 1

\* ten times a fraction given by its digits: the carry into the units and
\* the fraction that is left
RECURSIVE Times10(_)
Times10(fr) ==
    IF fr = <<>> THEN [carry |-> 0, frac |-> <<>>]
    ELSE LET rest == Times10(Tail(fr))
             v == 10 * Head(fr) + rest.carry
         IN  [carry |-> v \div Base, frac |-> <<v % Base>> \o rest.frac]

\* the .1f of an f-string: the value after j divisions in tenths, the
\* remainder rounded half to even
Tenths(d, j) ==
    LET t == Times10(FracDigits(d, j))
        floor == 10 * ValueOf(IntDigits(d, j)) + t.carry
        half == Base \div 2
        up == /\ t.frac # <<>>
              /\ \/ t.frac[1] > half
                 \/ /\ t.frac[1] = half
                    /\ \/ \E i \in 2..Len(t.frac) : t.frac[i] # 0
                       \/ floor % 2 = 1
    IN  IF up THEN floor + 1 ELSE floor

\* f"{size_bytes:.1f}{unit}"
FormatSize(tenths, unit) ==
    ToString(tenths \div 10) \o "." \o ToString(tenths % 10) \o unit

\* lines 232-235 from the unit at index u on, j = u - 1 divisions done
RECURSIVE Scale(_, _)
Scale(d, u) ==
    IF u > Len(Units)
    THEN [tenths |-> Tenths(d, u - 1), unit |-> "P"]
    ELSE IF Below1024(d, u - 1)
    THEN [tenths |-> Tenths(d, u - 1), unit |-> Units[u]]
    ELSE Scale(d, u + 1)

\* _human_readable_size(size_bytes)
HumanReadableSize(size_bytes) ==
    LET r == Scale(size_bytes, 1) IN FormatSize(r.tenths, r.unit)

HumanSize ==
    /\ op = "_human_readable_size" /\ pc = "start"
    /\ loc' = Scale(arg.size_bytes, 1)
    /\ result' = HumanReadableSize(arg.size_bytes)
    /\ pc' = "done"
    /\ UNCHANGED <<op, sys, arg, calls, err, procVars, cliVars>>

-----------------------------------------------------------------------------
(* get_disk_usage (commands/system.py) *)

UsageOutcomes ==
    LET
        \* psutil.disk_usage(mountpoint): the usage (percent in thousandths), or the
        \* mount cannot be read
        Usages ==
            {[total |-> <<100, 0, 0, 0>>, used |-> <<42, 256, 0, 0>>, free |-> <<57, 768, 0, 0>>,
              percent |-> 42250],
             [total |-> <<0>>, used |-> <<0>>, free |-> <<0>>, percent |-> 0]}
    IN
    {Ok(u) : u \in Usages} \cup {Raise("PermissionError"), Raise("OSError")}

\* line 200
SkippedFs(partition) == partition.fstype = "" \/ partition.fstype = "squashfs"

\* line 215 as it would be with PermissionError alone
DiskCaughtPermissionOnly(e) == IsInstance(e, "PermissionError")
\* line 215
DiskCaught(e) == IsInstance(e, "PermissionError") \/ IsInstance(e, "OSError")

\* lines 206-213
FilesystemInfo(partition, usage) ==
    [filesystem |-> partition.device,
     size |-> HumanReadableSize(usage.total),
     used |-> HumanReadableSize(usage.used),
     available |-> HumanReadableSize(usage.free),
     use_percent |-> Round1(usage.percent),
     mounted_on |-> partition.mountpoint]

\* lines 193-196
DiskStart ==
    /\ op = "get_disk_usage" /\ pc = "start"
    /\ result' = [k \in {"filesystems"} |-> <<>>]
    /\ loc' = [partitions |-> sys.partitions, i |-> 1, answers |-> <<>>]
    /\ pc' = "partition"
    /\ UNCHANGED <<op, sys, arg, calls, err, procVars, cliVars>>

\* lines 198-217: one partition; answers keeps what disk_usage answered for
\* it, None when it was not asked
DiskNext ==
    /\ op = "get_disk_usage" /\ pc = "partition" /\ loc.i <= Len(loc.partitions)
    /\ LET partition == loc.partitions[loc.i] IN
        IF SkippedFs(partition)
        THEN /\ loc' = [loc EXCEPT !.i = @ + 1, !.answers = Append(@, NONE)]
             /\ UNCHANGED <<result, pc, err>>
        ELSE \E o \in UsageOutcomes :
             /\ loc' = [loc EXCEPT !.i = @ + 1, !.answers = Append(@, Some(o))]
             /\ IF o.ok
                THEN /\ result' = [result EXCEPT !.filesystems =
                                     Append(@, FilesystemInfo(partition, o.val))]
                     /\ UNCHANGED <<pc, err>>
                ELSE /\ pc' = IF DiskCaught(o.exc) THEN pc ELSE "raised"
                     /\ err' = IF DiskCaught(o.exc) THEN err ELSE Some(o.exc)
                     /\ UNCHANGED result
    /\ UNCHANGED <<op, sys, arg, calls, procVars, cliVars>>

\* line 219
DiskFinish ==
    /\ op = "get_disk_usage" /\ pc = "partition" /\ loc.i > Len(loc.partitions)
    /\ pc' = "done"
    /\ UNCHANGED <<op, sys, arg, loc, calls, err, result, procVars, cliVars>>

-----------------------------------------------------------------------------
(* get_memory_info (commands/system.py) *)

\* lines 166 and 173: round(mem.percent, 2)
UsedPercent(mem) == Round2(mem.percent)

\* lines 159-167
MemRam ==
    /\ op = "get_memory_info" /\ pc = "start"
    /\ LET ram == sys.ram IN
        result' = [ram_total |-> ram.total,
                   ram_available |-> ram.available,
                   ram_used |-> ram.used,
                   ram_used_percent |-> UsedPercent(ram),
                   ram_free |-> ram.free]
    /\ pc' = "swap"
    /\ UNCHANGED <<op, sys, arg, loc, calls, err, procVars, cliVars>>

\* lines 169-176
MemSwap ==
    /\ op = "get_memory_info" /\ pc = "swap"
    /\ LET swap == sys.swap IN
        result' = Put(Put(Put(Put(result,
                    "swap_total", swap.total),
                    "swap_used", swap.used),
                    "swap_used_percent", UsedPercent(swap)),
                    "swap_free", swap.free)
    /\ pc' = "done"
    /\ UNCHANGED <<op, sys, arg, loc, calls, err, procVars, cliVars>>

-----------------------------------------------------------------------------
(* list_services, get_service_status, get_service_logs (commands/service.py) *)

\* A command that ran is held as what it printed and how it exited.

\* subprocess.run(..., check=True) of systemctl list-units
ListOutcomes ==
    LET
        \* systemctl list-units: a listing, its footer included, or nothing running
        UnitListings ==
            {"  UNIT LOAD ACTIVE SUB DESCRIPTION\n" \o
             "  cron.service loaded active running Regular background jobs\n" \o
             "  sshd.service loaded active running OpenSSH server\n" \o
             "\n" \o "2 loaded units listed.\n",
             "  UNIT LOAD ACTIVE SUB DESCRIPTION\n" \o "\n" \o "0 loaded units listed.\n"}
    IN
    {Ok([stdout |-> t, returncode |-> 0]) : t \in UnitListings}
        \cup {Raise("CalledProcessError"), Raise("FileNotFoundError")}

ListAllCommand == <<"systemctl", "list-units", "--type=service", "--all", "--no-pager">>
ListRunningCommand ==
    <<"systemctl", "list-units", "--type=service", "--state=running", "--no-pager">>

\* str(e) of the exceptions that reach a message
ExcMessage(e) ==
    CASE e = "CalledProcessError" -> "Command returned non-zero exit status 1."
      [] e = "PermissionError" -> "[Errno 13] Permission denied"
      [] e = "OSError" -> "[Errno 5] Input/output error"
      [] e = "IndexError" -> "list index out of range"
      [] OTHER -> e

\* lines 37-38 as they would be if every line were counted
RunningCountAllLines(text) == Len(Split(text, "\n"))
\* lines 37-38
RunningCount(text) ==
    Len(SelectSeq(Split(text, "\n"), LAMBDA line : Contains(line, ".service")))

SystemctlMissing == "Error: systemctl not found (systemd required)"

\* lines 17-27: the unfiltered listing
ServicesAll ==
    /\ op = "list_services" /\ pc = "start"
    /\ calls' = Append(calls, ListAllCommand)
    /\ LET o == sys.all IN
        IF o.ok
        THEN /\ result' = Put(<<>>, "services", o.val.stdout)
             /\ pc' = "running"
        ELSE IF IsInstance(o.exc, "CalledProcessError")
        THEN /\ result' = [services |-> "Error listing services: " \o ExcMessage(o.exc),
                           running_count |-> 0]
             /\ pc' = "done"
        ELSE IF IsInstance(o.exc, "FileNotFoundError")
        THEN /\ result' = [services |-> SystemctlMissing, running_count |-> 0]
             /\ pc' = "done"
        ELSE /\ result' = <<>>
             /\ pc' = "raised"
    /\ err' = IF pc' = "raised" THEN Some(sys.all.exc) ELSE err
    /\ UNCHANGED <<op, sys, arg, loc, procVars, cliVars>>

\* lines 29-47: the listing of the running units
ServicesRunning ==
    /\ op = "list_services" /\ pc = "running"
    /\ calls' = Append(calls, ListRunningCommand)
    /\ LET o == sys.running IN
        IF o.ok
        THEN /\ result' = Put(result, "running_count", RunningCount(o.val.stdout))
             /\ pc' = "done"
        ELSE IF IsInstance(o.exc, "CalledProcessError")
        THEN /\ result' = [services |-> "Error listing services: " \o ExcMessage(o.exc),
                           running_count |-> 0]
             /\ pc' = "done"
        ELSE IF IsInstance(o.exc, "FileNotFoundError")
        THEN /\ result' = [services |-> SystemctlMissing, running_count |-> 0]
             /\ pc' = "done"
        ELSE /\ UNCHANGED result
             /\ pc' = "raised"
    /\ err' = IF pc' = "raised" THEN Some(sys.running.exc) ELSE err
    /\ UNCHANGED <<op, sys, arg, loc, procVars, cliVars>>

\* lines 65-66 and 108-109 as they would be if the suffix were always appended
CanonicalAppended(service_name) == service_name \o ".service"
\* lines 65-66 and 108-109
Canonical(service_name) ==
    IF ~EndsWith(service_name, ".service") THEN service_name \o ".service"
    ELSE service_name

\* subprocess.run(..., check=False) of systemctl status
StatusOutcomes ==
    LET
        \* systemctl status prints on standard output: a unit, nothing (the message
        \* for an unknown unit is on standard error), and texts with the markers of
        \* lines 78-79 in either case
        StatusTexts ==
            {"sshd.service - OpenSSH server\n   Loaded: loaded\n   Active: active (running)\n",
             "",
             "Unit nginx.service could not be found.\n",
             "Unit NGINX.service Could Not Be Found.\n",
             "cron.service\n   Loaded: not loaded\n"}
    IN
    {Ok([stdout |-> t, returncode |-> rc]) : t \in StatusTexts, rc \in {0, 4}}
        \cup {Raise("FileNotFoundError")}

\* line 70 as it would be with a verb that acts on the unit
StatusCommandRestart(service_name) ==
    <<"systemctl", "restart", service_name, "--no-pager", "--full">>
StatusCommand(service_name) == <<"systemctl", "status", service_name, "--no-pager", "--full">>

\* lines 78-79 as they would be without .lower()
StatusNotFoundCaseSensitive(text) ==
    Contains(text, "could not be found") \/ Contains(text, "not loaded")
\* lines 78-79
StatusNotFound(text) ==
    Contains(Lower(text), "could not be found") \/ Contains(Lower(text), "not loaded")

\* lines 62-66
StatusName ==
    /\ op = "get_service_status" /\ pc = "start"
    /\ loc' = [service_name |-> Canonical(arg.service_name)]
    /\ result' = <<>>
    /\ pc' = "run"
    /\ UNCHANGED <<op, sys, arg, calls, err, procVars, cliVars>>

\* lines 68-86
StatusRun ==
    /\ op = "get_service_status" /\ pc = "run"
    /\ calls' = Append(calls, StatusCommand(loc.service_name))
    /\ LET o == sys.status IN
        IF o.ok
        THEN /\ result' =
                  IF StatusNotFound(o.val.stdout)
                  THEN [status |-> o.val.stdout,
                        error |-> "Service '" \o loc.service_name \o "' not found"]
                  ELSE [k \in {"status"} |-> o.val.stdout]
             /\ pc' = "done"
        ELSE IF IsInstance(o.exc, "FileNotFoundError")
        THEN /\ result' = [error |-> SystemctlMissing, status |-> ""]
             /\ pc' = "done"
        ELSE /\ UNCHANGED result
             /\ pc' = "raised"
    /\ err' = IF pc' = "raised" THEN Some(sys.status.exc) ELSE err
    /\ UNCHANGED <<op, sys, arg, loc, procVars, cliVars>>

\* line 105
MinLines == 1
MaxLines == 10000
\* line 105 as it would be without the lower limit
ClampedAbove(lines) == Min(lines, MaxLines)
\* line 105: max(1, min(lines, 10000))
Clamped(lines) == Max(MinLines, Min(lines, MaxLines))

\* subprocess.run(..., check=False) of journalctl
JournalOutcomes ==
    LET
        \* what journalctl prints: entries, nothing, and the marker of line 121 as
        \* journalctl writes it and in lower case
        JournalTexts ==
            {"Nov 04 10:00:01 host sshd[1]: Server listening on 0.0.0.0 port 22.\n",
             "",
             "No journal files were found.\n",
             "no journal files were found.\n"}
    IN
    {Ok([stdout |-> t, returncode |-> rc]) : t \in JournalTexts, rc \in {0, 1}}
        \cup {Raise("FileNotFoundError")}

JournalCommand(service_name, lines) ==
    <<"journalctl", "-u", service_name, "-n", ToString(lines), "--no-pager">>

\* lines 121-122
LogsNotFound(completed) ==
    \/ Contains(completed.stdout, "No journal files were found")
    \/ completed.returncode # 0 /\ completed.stdout = ""

\* lines 102-109
LogsArgs ==
    /\ op = "get_service_logs" /\ pc = "start"
    /\ loc' = [lines |-> Clamped(arg.lines), service_name |-> Canonical(arg.service_name)]
    /\ result' = <<>>
    /\ pc' = "run"
    /\ UNCHANGED <<op, sys, arg, calls, err, procVars, cliVars>>

\* lines 111-129
LogsRun ==
    /\ op = "get_service_logs" /\ pc = "run"
    /\ calls' = Append(calls, JournalCommand(loc.service_name, loc.lines))
    /\ LET o == sys.journal IN
        IF o.ok
        THEN /\ result' =
                  IF LogsNotFound(o.val)
                  THEN [logs |-> o.val.stdout,
                        error |-> "Service '" \o loc.service_name
                                      \o "' not found or no logs available"]
                  ELSE [k \in {"logs"} |-> o.val.stdout]
             /\ pc' = "done"
        ELSE IF IsInstance(o.exc, "FileNotFoundError")
        THEN /\ result' = [error |-> "Error: journalctl not found (systemd required)", logs |-> ""]
             /\ pc' = "done"
        ELSE /\ UNCHANGED result
             /\ pc' = "raised"
    /\ err' = IF pc' = "raised" THEN Some(sys.journal.exc) ELSE err
    /\ UNCHANGED <<op, sys, arg, loc, procVars, cliVars>>

-----------------------------------------------------------------------------
(* get_system_info (commands/system.py) *)

OsReleaseOutcomes ==
    LET
        \* open('/etc/os-release') and the reading of it: the text, or the file is
        \* not there, or it may not be read
        OsReleaseTexts ==
            {"NAME=\"Fedora Linux\"\nVERSION=\"40 (Workstation Edition)\"\nID=fedora\n",
             "# no name\nID=arch\n",
             ""}
    IN
    {Ok(t) : t \in OsReleaseTexts} \cup {Raise("FileNotFoundError"), Raise("PermissionError")}

\* subprocess.run(['uptime', flag], check=True)
UptimeOutcomes(text) ==
    {Ok([stdout |-> text, returncode |-> 0]), Raise("CalledProcessError"), Raise("FileNotFoundError")}

Unknown == "Unknown"

\* lines 34-38: the [key, value] pairs of the file, in its order
OsReleasePairs(text) ==
    LET lines == SelectSeq(Split(text, "\n"), LAMBDA line : Contains(line, "="))
    IN  [i \in 1..Len(lines) |->
            LET kv == Split1(RStrip(lines[i], Whitespace), "=")
            IN  <<kv[1], StripChars(kv[2], "\"")>>]

\* os_release.get(key, 'Unknown'): the last value stored under the key
OsReleaseGet(text, key) ==
    LET hits == SelectSeq(OsReleasePairs(text), LAMBDA kv : kv[1] = key)
    IN  IF hits = <<>> THEN Unknown ELSE hits[Len(hits)][2]

\* line 41
OsReleaseCaught(e) == IsInstance(e, "FileNotFoundError")
\* lines 60 and 72
UptimeCaught(e) == IsInstance(e, "CalledProcessError") \/ IsInstance(e, "FileNotFoundError")

\* lines 26-43
SysOsRelease ==
    /\ op = "get_system_info" /\ pc = "start"
    /\ LET o == sys.os_release
           named == Put(<<>>, "hostname", sys.node)
       IN  IF o.ok
           THEN /\ result' = Put(Put(named, "os", OsReleaseGet(o.val, "NAME")),
                                 "os_version", OsReleaseGet(o.val, "VERSION"))
                /\ pc' = "uptime"
                /\ UNCHANGED err
           ELSE IF OsReleaseCaught(o.exc)
           THEN /\ result' = Put(Put(named, "os", Unknown), "os_version", Unknown)
                /\ pc' = "uptime"
                /\ UNCHANGED err
           ELSE /\ result' = named
                /\ pc' = "raised"
                /\ err' = Some(o.exc)
    /\ UNCHANGED <<op, sys, arg, loc, calls, procVars, cliVars>>

\* lines 45-61
SysUptime ==
    /\ op = "get_system_info" /\ pc = "uptime"
    /\ calls' = Append(calls, <<"uptime", "-p">>)
    /\ LET o == sys.uptime_p
           versioned == Put(Put(result, "kernel", sys.release), "architecture", sys.machine)
       IN  IF o.ok
           THEN /\ result' = Put(versioned, "uptime", Strip(o.val.stdout))
                /\ pc' = "boot_time"
                /\ UNCHANGED err
           ELSE IF UptimeCaught(o.exc)
           THEN /\ result' = Put(versioned, "uptime", Unknown)
                /\ pc' = "boot_time"
                /\ UNCHANGED err
           ELSE /\ result' = versioned
                /\ pc' = "raised"
                /\ err' = Some(o.exc)
    /\ UNCHANGED <<op, sys, arg, loc, procVars, cliVars>>

\* lines 63-75
SysBootTime ==
    /\ op = "get_system_info" /\ pc = "boot_time"
    /\ calls' = Append(calls, <<"uptime", "-s">>)
    /\ LET o == sys.uptime_s IN
        IF o.ok
        THEN /\ result' = Put(result, "boot_time", Strip(o.val.stdout))
             /\ pc' = "done"
             /\ UNCHANGED err
        ELSE IF UptimeCaught(o.exc)
        THEN /\ result' = Put(result, "boot_time", Unknown)
             /\ pc' = "done"
             /\ UNCHANGED err
        ELSE /\ UNCHANGED result
             /\ pc' = "raised"
             /\ err' = Some(o.exc)
    /\ UNCHANGED <<op, sys, arg, loc, procVars, cliVars>>

-----------------------------------------------------------------------------
(* get_cpu_info (commands/system.py) *)

CpuInfoOutcomes ==
    LET
        \* open('/proc/cpuinfo') and the reading of it: a usual file, one without a
        \* model name, one whose model name line has no colon; or no file, or no
        \* permission
        CpuInfoTexts ==
            {"processor : 0\nmodel name : Intel(R) Core(TM) i7-8650U\nflags : fpu vme\n",
             "processor : 0\nflags : fpu vme\n",
             "processor : 0\nmodel name\n"}
    IN
    {Ok(t) : t \in CpuInfoTexts} \cup {Raise("FileNotFoundError"), Raise("PermissionError")}

\* lines 101-106: the model of the first line with 'model name', or the
\* IndexError of split(':')[1] on a line without a colon
CpuModel(text) ==
    LET hits == SelectSeq(Split(text, "\n"), LAMBDA line : Contains(line, "model name"))
    IN  IF hits = <<>> THEN Ok(Unknown)
        ELSE LET fields == Split(hits[1], ":")
             IN  IF Len(fields) < 2 THEN Raise("IndexError")
                 ELSE Ok(Strip(fields[2]))

\* line 107
CpuInfoCaught(e) == IsInstance(e, "FileNotFoundError")
\* line 125
CpuFreqCaught(e) == IsInstance(e, "Exception")

\* `psutil.cpu_count(...) or 0`
OrZero(x) == IF x = NONE \/ x = Some(0) THEN 0 ELSE x[1]

\* lines 96-108
CpuReadModel ==
    /\ op = "get_cpu_info" /\ pc = "start"
    /\ LET o == IF sys.cpuinfo.ok THEN CpuModel(sys.cpuinfo.val) ELSE sys.cpuinfo IN
        IF o.ok
        THEN /\ result' = Put(<<>>, "cpu_model", o.val)
             /\ pc' = "freq"
             /\ UNCHANGED err
        ELSE IF CpuInfoCaught(o.exc)
        THEN /\ result' = Put(<<>>, "cpu_model", Unknown)
             /\ pc' = "freq"
             /\ UNCHANGED err
        ELSE /\ result' = <<>>
             /\ pc' = "raised"
             /\ err' = Some(o.exc)
    /\ UNCHANGED <<op, sys, arg, loc, calls, procVars, cliVars>>

\* lines 110-128
CpuCoresFreq ==
    /\ op = "get_cpu_info" /\ pc = "freq"
    /\ LET o == sys.cpu_freq
           counted == Put(Put(result, "physical_cores", OrZero(sys.cores.physical)),
                          "logical_cores", OrZero(sys.cores.logical))
           freq(c, lo, hi) == Put(Put(Put(counted, "cpu_freq_current", c),
                                      "cpu_freq_min", lo), "cpu_freq_max", hi)
       IN  IF o.ok
           THEN /\ result' = IF o.val # NONE
                             THEN freq(Round2(o.val[1].current), Round2(o.val[1].min),
                                       Round2(o.val[1].max))
                             ELSE freq(0, 0, 0)
                /\ pc' = "usage"
                /\ UNCHANGED err
           ELSE IF CpuFreqCaught(o.exc)
           THEN /\ result' = freq(0, 0, 0)
                /\ pc' = "usage"
                /\ UNCHANGED err
           ELSE /\ result' = counted
                /\ pc' = "raised"
                /\ err' = Some(o.exc)
    /\ UNCHANGED <<op, sys, arg, loc, calls, procVars, cliVars>>

\* lines 130-140: os.getloadavg() is called outside any try
CpuUsageLoad ==
    /\ op = "get_cpu_info" /\ pc = "usage"
    /\ LET o == sys.loadavg
           used == Put(Put(result, "cpu_usage_per_core", sys.per_core),
                       "overall_cpu_usage", sys.overall)
       IN  IF o.ok
           THEN /\ result' = Put(Put(Put(used, "load_average_1m", Round2(o.val[1])),
                                     "load_average_5m", Round2(o.val[2])),
                                 "load_average_15m", Round2(o.val[3]))
                /\ pc' = "done"
                /\ UNCHANGED err
           ELSE /\ result' = used
                /\ pc' = "raised"
                /\ err' = Some(o.exc)
    /\ UNCHANGED <<op, sys, arg, loc, calls, procVars, cliVars>>

-----------------------------------------------------------------------------
(* The command-line wrapper (cli.py) and its formatting (utils/formatting.py) *)

\* the subcommands; each calls the collector of the same position
CliCommands ==
    {"list_processes", "get_process_info", "get_listening_ports", "get_network_interfaces",
     "get_system_info", "get_cpu_info", "get_memory_info", "get_disk_usage",
     "list_services", "get_service_status", "get_service_logs"}

Formats == {"json", "text"}

\* format_output: json.dumps(data, indent=2) or a rich table of the record,
\* kept here as the record and the format it is rendered in
FormatOutput(data, format_type) ==
    IF format_type = "json" THEN [json |-> data] ELSE [text |-> data]

\* format_error; the messages here hold nothing json.dumps would escape
FormatError(error_message, format_type) ==
    IF format_type = "json"
    THEN "{\n  \"error\": \"" \o error_message \o "\"\n}"
    ELSE "ERROR: " \o error_message

\* the try branch of a subcommand: the collector returned
CliEcho ==
    /\ op \in CliCommands /\ pc = "done" /\ exit = NONE
    /\ \E format \in Formats :
        stdout' = Append(stdout, FormatOutput(result, format))
    /\ exit' = Some(0)
    /\ UNCHANGED <<op, pc, result, err, stderr, extVars, procVars>>

\* the except branch as it would be if the error went to standard output
CliAbortOnStdout ==
    /\ op \in CliCommands /\ pc = "raised" /\ exit = NONE
    /\ \E format \in Formats :
        stdout' = Append(stdout, FormatError(ExcMessage(err[1]), format))
    /\ stderr' = Append(stderr, "Aborted!")
    /\ exit' = Some(1)
    /\ UNCHANGED <<op, pc, result, err, extVars, procVars>>

\* the except branch: the error is echoed to standard error and click.Abort
\* ends the command, on which click writes "Aborted!" and exits with 1
CliAbort ==
    /\ op \in CliCommands /\ pc = "raised" /\ exit = NONE
    /\ \E format \in Formats :
        stderr' = stderr \o <<FormatError(ExcMessage(err[1]), format), "Aborted!">>
    /\ exit' = Some(1)
    /\ UNCHANGED <<op, pc, result, err, stdout, extVars, procVars>>

-----------------------------------------------------------------------------
(* The environment: the process the collector is about to read exits or     *)
(* turns zombie.  The collector reads a process only in its own turn, so a  *)
(* change before the turn is the same change at the start of the turn, and  *)
(* a change after the last read of the process cannot reach the collector.  *)

Pending(p) ==
    \/ /\ op = "list_processes" /\ pc \in {"iter", "cpu", "mem"}
       /\ idx <= Len(table) /\ table[idx] = p
    \/ /\ op = "get_process_info" /\ pc \notin {"start", "done", "raised"}
       /\ p = pid

\* the process was already enumerated (list) or looked up (detail)
Racing(p) ==
    IF \/ op = "list_processes" /\ pc \in {"cpu", "mem"} /\ table[idx] = p
       \/ op = "get_process_info" /\ pc # "Process"
    THEN raced \cup {p} ELSE raced

ProcExit(p) ==
    /\ Pending(p) /\ ~IsFiller(p)
    /\ procState[p] \in {"alive", "zombie"}
    /\ procState' = [procState EXCEPT ![p] = "gone"]
    /\ raced' = Racing(p)
    /\ UNCHANGED <<extVars, cliVars, err, op, pc, result, restricted, listVars, infoVars>>

ProcZombie(p) ==
    /\ Pending(p) /\ ~IsFiller(p)
    /\ procState[p] = "alive"
    /\ procState' = [procState EXCEPT ![p] = "zombie"]
    /\ raced' = Racing(p)
    /\ UNCHANGED <<extVars, cliVars, err, op, pc, result, restricted, listVars, infoVars>>

-----------------------------------------------------------------------------

InitList ==
    /\ op = "list_processes"
    /\ table \in SmallTables \cup BigTables
    /\ procState = [p \in FreePids |-> "alive"]
    /\ pid = 0
    /\ queries = <<>>
    /\ sys = <<>> /\ arg = <<>>

\* the pid asked for: invalid, or a pid that is live, a zombie or absent
InitInfo ==
    /\ op = "get_process_info"
    /\ table = <<>>
    /\ pid \in {-1, 0} \cup FreePids
    /\ \E s \in {"alive", "zombie", "gone"} :
        procState = [p \in FreePids |-> IF p = pid THEN s ELSE "gone"]
    /\ queries = <<>>
    /\ sys = <<>> /\ arg = <<>>

InitPorts ==
    /\ op = "get_listening_ports"
    /\ sys \in [connections : ConnectionsOutcomes, ss : SsOutcomes]
    /\ arg = <<>>

InitIfaces ==
    LET
        \* psutil.net_io_counters()
        IoCounters ==
            [bytes_sent |-> 1200, bytes_recv |-> 3400, packets_sent |-> 12, packets_recv |-> 34,
             errin |-> 0, errout |-> 0, dropin |-> 1, dropout |-> 0]
    IN
    /\ op = "get_network_interfaces"
    /\ sys \in [addrs : AddrTables, stats : StatTables, io : {IoCounters}]
    /\ arg = <<>>

InitHumanSize ==
    /\ op = "_human_readable_size"
    /\ arg \in [size_bytes : Sizes]
    /\ sys = <<>>

InitDisk ==
    LET
        \* a partition of psutil.disk_partitions()
        Part(device, mountpoint, fstype) ==
            [device |-> device, mountpoint |-> mountpoint, fstype |-> fstype]
        PartKinds ==
            {Part("/dev/sda1", "/", "ext4"),
             Part("tmpfs", "/run", "tmpfs"),
             Part("/dev/loop0", "/snap/core", "squashfs"),
             Part("none", "/proc/x", "")}
        MountTables == UNION {[1..n -> PartKinds] : n \in 0..MaxMounts}
    IN
    /\ op = "get_disk_usage"
    /\ sys \in [partitions : MountTables]
    /\ arg = <<>>

InitMemory ==
    LET
        \* psutil.virtual_memory() in bytes with percent in thousandths, of a machine
        \* small enough for the products below.  The first snapshot is Linux's usual
        \* one: used leaves out buffers and cache, and percent is
        \* (total - available) / total to one decimal.  In the second nothing is
        \* cached and percent happens to be used / total.
        RamSnapshots ==
            {[total |-> 160000, available |-> 110000, used |-> 40000, free |-> 20000,
              percent |-> 31200],
             [total |-> 160000, available |-> 60000, used |-> 100000, free |-> 60000,
              percent |-> 62500]}
        \* psutil.swap_memory(): no swap at all, and a quarter of it in use
        SwapSnapshots ==
            {[total |-> 0, used |-> 0, free |-> 0, percent |-> 0],
             [total |-> 80000, used |-> 20000, free |-> 60000, percent |-> 25000]}
    IN
    /\ op = "get_memory_info"
    /\ sys \in [ram : RamSnapshots, swap : SwapSnapshots]
    /\ arg = <<>>

InitServices ==
    /\ op = "list_services"
    /\ sys \in [all : ListOutcomes, running : ListOutcomes]
    /\ arg = <<>>

InitStatus ==
    LET
        \* the names a service is asked for by
        ServiceNames == {"sshd", "sshd.service", "nginx.servic", ".service", "", "a.service.service"}
    IN
    /\ op = "get_service_status"
    /\ sys \in [status : StatusOutcomes]
    /\ arg \in [service_name : ServiceNames]

InitLogs ==
    LET
        LogNames == {"sshd", "sshd.service"}
        \* the --lines asked for
        LineCounts == {-5, 0, 1, 50, 10000, 10001}
    IN
    /\ op = "get_service_logs"
    /\ sys \in [journal : JournalOutcomes]
    /\ arg \in [service_name : LogNames, lines : LineCounts]

InitSystem ==
    /\ op = "get_system_info"
    /\ sys \in [node : {"host1"}, release : {"6.8.0"}, machine : {"x86_64"},
                os_release : OsReleaseOutcomes,
                uptime_p : UptimeOutcomes("up 3 days, 2 hours\n"),
                uptime_s : UptimeOutcomes("2026-11-01 08:00:00\n")]
    /\ arg = <<>>

InitCpu ==
    LET
        \* psutil.cpu_count: None when it cannot be determined
        CoreCounts == {[physical |-> Some(4), logical |-> Some(8)],
                       [physical |-> NONE, logical |-> Some(8)]}
        \* psutil.cpu_freq() in thousandths of a MHz: a reading, None, or a failure
        CpuFreqOutcomes ==
            {Ok(Some([current |-> 2112345, min |-> 400000, max |-> 4200000])),
             Ok(NONE),
             Raise("NotImplementedError")}
        \* os.getloadavg() in thousandths: the averages, or OSError when they are
        \* unobtainable
        LoadAvgOutcomes == {Ok(<<1234, 875, 500>>), Raise("OSError")}
    IN
    /\ op = "get_cpu_info"
    /\ sys \in [cpuinfo : CpuInfoOutcomes, cores : CoreCounts, cpu_freq : CpuFreqOutcomes,
                per_core : {<<12500, 3000>>}, overall : {7750}, loadavg : LoadAvgOutcomes]
    /\ arg = <<>>

\* a collector that does not read the process table
NoProcs ==
    /\ table = <<>>
    /\ procState = [p \in FreePids |-> "gone"]
    /\ pid = 0
    /\ queries = <<>>

Init ==
    /\ pc = "start"
    /\ idx = 0
    /\ info = NONE
    /\ cpu_percent = 0
    /\ all_processes = <<>>
    /\ result = <<>>
    /\ raced = {}
    /\ restricted = {}
    /\ sampled = {}
    /\ loc = <<>>
    /\ calls = <<>>
    /\ err = NONE
    /\ stdout = <<>>
    /\ stderr = <<>>
    /\ exit = NONE
    /\ \/ InitList
       \/ InitInfo
       \/ NoProcs /\ InitPorts
       \/ NoProcs /\ InitIfaces
       \/ NoProcs /\ InitHumanSize
       \/ NoProcs /\ InitDisk
       \/ NoProcs /\ InitMemory
       \/ NoProcs /\ InitServices
       \/ NoProcs /\ InitStatus
       \/ NoProcs /\ InitLogs
       \/ NoProcs /\ InitSystem
       \/ NoProcs /\ InitCpu

Next ==
    \/ ListStart
    \/ ListIter
    \/ ListSampleCpu
    \/ ListSampleMem
    \/ ListFinish
    \/ InfoValidate
    \/ InfoQuery
    \/ InfoOpenFiles
    \/ PortsQuery
    \/ PortsConn
    \/ PortsFallback
    \/ PortsFinish
    \/ IfacesStart
    \/ IfacesNext
    \/ IfacesIoStats
    \/ HumanSize
    \/ DiskStart
    \/ DiskNext
    \/ DiskFinish
    \/ MemRam
    \/ MemSwap
    \/ ServicesAll
    \/ ServicesRunning
    \/ StatusName
    \/ StatusRun
    \/ LogsArgs
    \/ LogsRun
    \/ SysOsRelease
    \/ SysUptime
    \/ SysBootTime
    \/ CpuReadModel
    \/ CpuCoresFreq
    \/ CpuUsageLoad
    \/ CliEcho
    \/ CliAbort
    \/ \E p \in FreePids : ProcExit(p)
    \/ \E p \in FreePids : ProcZombie(p)

Spec == Init /\ [][Next]_vars

-----------------------------------------------------------------------------
(* Properties of list_processes *)

ListDone == op = "list_processes" /\ pc = "done"
Returned == result.processes
EntryFields == {"pid", "user", "cpu_percent", "memory_percent", "status", "name", "command"}
PosInTable(p) == CHOOSE i \in 1..Len(table) : table[i] = p
TableAscending == \A i \in 1..Len(table) : i < Len(table) => table[i] < table[i + 1]

\* the indices that have a successor in the returned list; the orders below
\* are transitive, so a list is ordered when each entry is with its successor
Adjacent == {i \in 1..Len(Returned) : i < Len(Returned)}

C2_CountAndTruncation ==
    ListDone =>
        /\ Len(Returned) <= 100
        /\ result.total_count = Cardinality(sampled)
        /\ result.total_count >= Len(Returned)
        /\ Len(Returned) = Min(100, result.total_count)

C2_Witness == ListDone /\ result.total_count > Len(Returned) /\ Len(Returned) = 100

\* C3: the returned entries are the min(100, survivors) survivors of highest
\* cpu_percent: every returned entry is a survivor's, and no survivor left
\* out has a cpu_percent strictly greater than a returned entry's.
C3_TopByCpu ==
    ListDone =>
        LET returnedPids == {Returned[i].pid : i \in 1..Len(Returned)} IN
        /\ returnedPids \subseteq sampled
        /\ Cardinality(returnedPids) = Min(100, Cardinality(sampled))
        /\ \A k \in 1..Len(all_processes) :
            /\ all_processes[k].pid \in sampled
            /\ all_processes[k].pid \notin returnedPids =>
                \A i \in 1..Len(Returned) :
                    all_processes[k].cpu_percent <= Returned[i].cpu_percent

\* a survivor is left out and some returned entry has a strictly greater cpu_percent
C3_Witness ==
    /\ ListDone
    /\ \E k \in 1..Len(all_processes), i \in 1..Len(Returned) :
        /\ \A j \in 1..Len(Returned) : Returned[j].pid # all_processes[k].pid
        /\ all_processes[k].cpu_percent < Returned[i].cpu_percent

\* C4: a process that exits or turns zombie after it was enumerated and
\* before its samples were taken is left out, no exception leaves
\* list_processes, and every entry built carries all seven fields.
C4_RacedOmittedEntriesWhole ==
    op = "list_processes" =>
        /\ pc # "raised"
        /\ \A k \in 1..Len(all_processes) :
            /\ DOMAIN all_processes[k] = EntryFields
            /\ all_processes[k].pid \notin raced
        /\ pc = "done" =>
            \A i \in 1..Len(Returned) :
                /\ DOMAIN Returned[i] = EntryFields
                /\ Returned[i].pid \notin raced

C4_Witness == ListDone /\ raced # {} /\ Len(Returned) > 0

\* C5 as stated: a process one of whose fields the caller may not read is not
\* in the result, and no entry carries the placeholder user 'unknown'.
C5_RestrictedExcluded ==
    ListDone =>
        \A i \in 1..Len(Returned) :
            /\ Returned[i].pid \notin restricted
            /\ Returned[i].user # "unknown"

\* C6 as stated: cpu_percent and memory_percent of every returned entry are
\* within [0, 100] (0..1000 tenths).
C6_PercentInRange ==
    ListDone =>
        \A i \in 1..Len(Returned) :
            /\ Returned[i].cpu_percent \in 0..1000
            /\ Returned[i].memory_percent \in 0..1000

-----------------------------------------------------------------------------
(* Properties of get_process_info *)

InfoDone == op = "get_process_info" /\ pc = "done"

\* C7: for pid < 1 no psutil call is ever issued and the record returned holds
\* the validation error and nothing else.
C7_InvalidPidNoQuery ==
    (op = "get_process_info" /\ pid < 1) =>
        /\ queries = <<>>
        /\ pc \in {"start", "done"}
        /\ pc = "done" =>
            /\ DOMAIN result = {"error"}
            /\ result.error = IF pid = 0 THEN "Invalid PID: 0 (must be >= 1)"
                              ELSE "Invalid PID: -1 (must be >= 1)"

C7_Witness == InfoDone /\ pid < 1

\* the pid did not exist when get_process_info looked it up
AbsentAtLookup == StateOf(pid) = "gone" /\ pid \notin raced

\* C8: for pid >= 1 with no such process the call returns, without an
\* exception, a record whose error field says the process was not found.
C8_AbsentPidNotFound ==
    (op = "get_process_info" /\ pid >= 1 /\ AbsentAtLookup) =>
        /\ pc # "raised"
        /\ pc = "done" =>
            /\ "error" \in DOMAIN result
            /\ result.error = "Process " \o ToString(pid) \o " not found"

C8_Witness == InfoDone /\ pid >= 1 /\ AbsentAtLookup

\* C9 as stated: the record returned is either the full detail record (the 16
\* fields and no error) or a failure marker (error and no detail field).
C9_FullOrMarker ==
    InfoDone => (DOMAIN result = DetailFields \/ DOMAIN result = {"error"})

\* every call before open_files returned, and open_files raised AccessDenied
\* or NoSuchProcess (ZombieProcess is a NoSuchProcess)
OnlyOpenFilesFailed ==
    /\ Len(queries) > 0
    /\ queries[Len(queries)].q = "open_files"
    /\ queries[Len(queries)].out \in {"AccessDenied", "NoSuchProcess", "ZombieProcess"}
    /\ \A n \in 1..(Len(queries) - 1) : queries[n].out = "ok"

\* C10: when only the open-files call fails, the record is the full detail
\* record with open_files = 0, the other fields as collected, and no error.
C10_OpenFilesFallback ==
    (InfoDone /\ OnlyOpenFilesFailed) =>
        /\ DOMAIN result = DetailFields
        /\ result.open_files = 0
        /\ result.name = ProcName /\ result.pid = pid /\ result.status = "sleeping"
        /\ result.user = "root" /\ result.ppid = 1 /\ result.threads = 1
        /\ result.memory_rss = 4096 /\ result.memory_vms = 8192
        /\ result.cpu_time_user = 100 /\ result.cpu_time_system = 2
        /\ result.memory_percent = 125

C10_Witness ==
    InfoDone /\ OnlyOpenFilesFailed /\ queries[Len(queries)].out = "NoSuchProcess"

-----------------------------------------------------------------------------
(* Properties of get_listening_ports *)

PortsEnded == op = "get_listening_ports" /\ pc \in {"done", "raised"}
PrimaryDenied == ~sys.connections.ok /\ sys.connections.exc = "AccessDenied"

\* C11: when the socket table query is denied as a whole, get_listening_ports
\* runs ss and returns a result with listening_ports and total_count, never
\* the permission error; when ss is missing or exits non-zero the result is
\* the empty sequence with total_count 0.
C11_DeniedFallsBackToSs ==
    (PortsEnded /\ PrimaryDenied) =>
        /\ pc = "done"
        /\ calls = <<SsCommand>>
        /\ DOMAIN result = {"listening_ports", "total_count"}
        /\ result.total_count = Len(result.listening_ports)
        /\ sys.ss.ok => result.listening_ports = SsEntries(sys.ss.val)
        /\ ~sys.ss.ok => result.listening_ports = <<>> /\ result.total_count = 0

\* the fallback ran and ss was not there to run
C11_Witness ==
    /\ PortsEnded /\ PrimaryDenied
    /\ ~sys.ss.ok /\ sys.ss.exc = "FileNotFoundError"
    /\ result.total_count = 0

PrimaryDone == op = "get_listening_ports" /\ pc = "done" /\ sys.connections.ok
\* a TCP socket in LISTEN state or a UDP socket with a bound local address
Wanted(conn) ==
    \/ conn.type = SockStream /\ conn.status = "LISTEN"
    \/ conn.type = SockDgram /\ conn.laddr # NONE
WantedSockets == SelectSeq(sys.connections.val, Wanted)

FallbackRan == op = "get_listening_ports" /\ PortsEnded /\ PrimaryDenied /\ sys.ss.ok
SsLines == Split(sys.ss.val, "\n")
\* the lines after the first that have five columns or more, and how many of
\* them there are up to line i
FullLines == {i \in 2..Len(SsLines) : Len(SplitWs(SsLines[i])) >= 5}
FullUpTo(i) == Cardinality({j \in FullLines : j <= i})

\* C24: on the fallback path the first line of the output is skipped as a
\* header and each later line, in order, gives one entry when it has five
\* whitespace-separated columns or more (proto the first column in upper case,
\* local_address the fifth, pid and program null) and none when it is blank or
\* shorter; a malformed line never makes the call fail.
C24_FallbackLines ==
    FallbackRan =>
        /\ pc = "done" /\ err = NONE
        /\ Len(result.listening_ports) = Cardinality(FullLines)
        /\ \A i \in FullLines :
            result.listening_ports[FullUpTo(i)] =
                [proto |-> Upper(SplitWs(SsLines[i])[1]),
                 local_address |-> SplitWs(SsLines[i])[5],
                 pid |-> NONE,
                 program |-> NONE]

\* a listing with a short line and a blank line before the one full line
C24_Witness ==
    /\ FallbackRan
    /\ Len(SsLines) >= 4
    /\ Cardinality(FullLines) = 1
    /\ result.listening_ports[1].proto = "TCP6"
    /\ result.listening_ports[1].local_address = "[::]:80"

PortsDone == op = "get_listening_ports" /\ pc = "done"

\* C30: in every result of get_listening_ports total_count is the length of
\* listening_ports, the entries all come from one path (the socket table
\* without a run of ss, or the output of ss alone, or there are none), and an
\* entry with a program has a pid.
C30_CountAndSinglePath ==
    PortsDone =>
        LET e == result.listening_ports IN
        /\ result.total_count = Len(e)
        /\ sys.connections.ok => calls = <<>> /\ Len(e) = Len(WantedSockets)
        /\ ~sys.connections.ok =>
               /\ calls = <<SsCommand>>
               /\ Len(e) = (IF sys.ss.ok THEN Cardinality(FullLines) ELSE 0)
               /\ \A i \in 1..Len(e) : e[i].pid = NONE /\ e[i].program = NONE
        /\ \A i \in 1..Len(e) : e[i].program # NONE => e[i].pid # NONE

\* two sockets of the table returned, the first with its program
C30_Witness ==
    /\ PortsDone
    /\ result.total_count = 2
    /\ result.listening_ports[1].program = Some("sshd")
    /\ result.listening_ports[1].pid = Some(1)

-----------------------------------------------------------------------------
(* Properties of get_network_interfaces *)

IfacesDone == op = "get_network_interfaces" /\ pc = "done"
AddrNames == {sys.addrs[i].name : i \in 1..Len(sys.addrs)}
EntriesNamed(n) == {i \in 1..Len(result.interfaces) : result.interfaces[i].name = n}

\* C12: an interface present in the address table or in the link-stats table
\* appears in the result: one without stats as DOWN with speed 0 and mtu 0,
\* one without addresses with empty address lists and an empty MAC.
C12_EitherTableAppears ==
    IfacesDone =>
        \A n \in AddrNames \cup DOMAIN sys.stats :
            /\ Cardinality(EntriesNamed(n)) = 1
            /\ \A i \in EntriesNamed(n) :
                LET e == result.interfaces[i] IN
                /\ n \notin DOMAIN sys.stats =>
                       e.status = "DOWN" /\ e.speed = 0 /\ e.mtu = 0
                /\ n \notin AddrNames =>
                       /\ e.ipv4_addresses = <<>> /\ e.ipv6_addresses = <<>>
                       /\ e.mac_address = ""

-----------------------------------------------------------------------------
(* Properties of get_disk_usage *)

DiskEnded == op = "get_disk_usage" /\ pc \in {"done", "raised"}

\* the partitions that are not skipped and whose usage query answered
Readable(i) ==
    /\ ~SkippedFs(sys.partitions[i])
    /\ loc.answers[i] # NONE /\ loc.answers[i][1].ok

RECURSIVE ReadableUpTo(_)
ReadableUpTo(n) ==
    IF n = 0 THEN <<>>
    ELSE IF Readable(n) THEN Append(ReadableUpTo(n - 1), n)
    ELSE ReadableUpTo(n - 1)

\* C13: get_disk_usage returns, in mount-table order, exactly the mounts
\* whose fstype is neither '' nor 'squashfs' and whose usage query succeeded;
\* a mount whose query fails is dropped and the call does not fail.
C13_ReadableMountsInOrder ==
    DiskEnded =>
        /\ pc = "done"
        /\ Len(loc.answers) = Len(sys.partitions)
        /\ LET kept == ReadableUpTo(Len(sys.partitions)) IN
            /\ Len(result.filesystems) = Len(kept)
            /\ \A j \in 1..Len(kept) :
                /\ result.filesystems[j].filesystem = sys.partitions[kept[j]].device
                /\ result.filesystems[j].mounted_on = sys.partitions[kept[j]].mountpoint
                /\ result.filesystems[j].size =
                       HumanReadableSize(loc.answers[kept[j]][1].val.total)

\* a mount that could not be read, followed by one that is reported
C13_Witness ==
    /\ DiskEnded
    /\ \E j, k \in 1..Len(sys.partitions) :
        /\ ~SkippedFs(sys.partitions[j]) /\ ~loc.answers[j][1].ok
        /\ j < k /\ Readable(k)
    /\ Len(result.filesystems) = 1

-----------------------------------------------------------------------------
(* Properties of get_memory_info *)

MemDone == op = "get_memory_info" /\ pc = "done"
Abs(x) == IF x < 0 THEN -x ELSE x

\* used + free is the total, and the percentage (in hundredths) is
\* used / total * 100 to within 0.01
SumsToTotal(total, used, free) == Abs(used + free - total) <= 1
PercentOfUsed(total, used, percent) ==
    Abs(percent - RoundHalfEven(used * 10000, total)) <= 1

\* C14: in every memory snapshot ram_used + ram_free is ram_total
\* within rounding tolerance and ram_used_percent is
\* round(ram_used / ram_total * 100, 2) within 0.01, whatever the adapter
\* reports.
C14_UsedFreeAndPercentConsistent ==
    MemDone =>
        /\ SumsToTotal(result.ram_total, result.ram_used, result.ram_free)
        /\ PercentOfUsed(result.ram_total, result.ram_used, result.ram_used_percent)

-----------------------------------------------------------------------------
(* Properties of the service collectors *)

StatusQueried == op = "get_service_status" /\ calls # <<>>
LogsQueried == op = "get_service_logs" /\ calls # <<>>
\* the unit named on the command line of the query
QueriedUnit == calls[1][3]
HasSuffix(name) ==
    /\ Len(name) >= 8
    /\ SubSeq(name, Len(name) - 7, Len(name)) = ".service"

\* C15: the name queried is the name given with '.service' appended unless it
\* ends in '.service' already, in which case it is the name given; the
\* canonicalisation is idempotent and the name queried always ends in
\* '.service'.
C15_CanonicalName ==
    (StatusQueried \/ LogsQueried) =>
        /\ HasSuffix(arg.service_name) => QueriedUnit = arg.service_name
        /\ ~HasSuffix(arg.service_name) => QueriedUnit = arg.service_name \o ".service"
        /\ HasSuffix(QueriedUnit)
        /\ Canonical(QueriedUnit) = QueriedUnit
        /\ Canonical(Canonical(arg.service_name)) = Canonical(arg.service_name)

\* a name that already carries a doubled suffix is queried as it is
C15_Witness ==
    /\ StatusQueried
    /\ arg.service_name = "a.service.service"
    /\ calls[1] = <<"systemctl", "status", "a.service.service", "--no-pager", "--full">>

\* C16: whatever integer is given for lines, journalctl is asked for
\* max(1, min(lines, 10000)) entries.
C16_LinesClamped ==
    LogsQueried =>
        /\ Len(calls) = 1
        /\ calls[1][1] = "journalctl"
        /\ calls[1][5] = ToString(IF arg.lines < 1 THEN 1
                                  ELSE IF arg.lines > 10000 THEN 10000
                                  ELSE arg.lines)

\* a negative count is raised to 1
C16_Witness ==
    /\ LogsQueried
    /\ arg.lines = -5
    /\ calls[1] = <<"journalctl", "-u", "sshd.service", "-n", "1", "--no-pager">>

\* systemctl ran and get_service_status returned; journalctl ran and
\* get_service_logs returned
StatusAnswered == op = "get_service_status" /\ pc = "done" /\ sys.status.ok
LogsAnswered == op = "get_service_logs" /\ pc = "done" /\ sys.journal.ok
HasError == "error" \in DOMAIN result
\* t occurs in s in some letter case
ContainsAnyCase(s, t) ==
    \E i \in 1..(Len(s) - Len(t) + 1) : Lower(SubSeq(s, i, i + Len(t) - 1)) = t

\* C25: get_service_status returns the text systemctl printed in the status
\* field, and the error field is set exactly when that text contains 'could
\* not be found' or 'not loaded' in some letter case.
C25_StatusMarker ==
    StatusAnswered =>
        /\ result.status = sys.status.val.stdout
        /\ HasError <=> \/ ContainsAnyCase(sys.status.val.stdout, "could not be found")
                        \/ ContainsAnyCase(sys.status.val.stdout, "not loaded")

\* the marker in capitals is recognised
C25_Witness ==
    /\ StatusAnswered
    /\ sys.status.val.stdout = "Unit NGINX.service Could Not Be Found.\n"
    /\ result.error = "Service '" \o QueriedUnit \o "' not found"

\* C26: get_service_logs returns the text journalctl printed in the logs
\* field; the error field is set whenever that text contains 'no journal files
\* were found' in whatever letter case, or journalctl exits non-zero with
\* nothing printed, and it is not set when journalctl exits zero with text that
\* lacks the marker.
C26_LogsMarker ==
    LogsAnswered =>
        LET out == sys.journal.val.stdout
            rc == sys.journal.val.returncode
            marked == ContainsAnyCase(out, "no journal files were found")
        IN  /\ result.logs = out
            /\ (marked \/ (rc # 0 /\ out = "")) => HasError
            /\ (rc = 0 /\ out # "" /\ ~marked) => ~HasError

ServicesEnded == op = "list_services" /\ pc \in {"done", "raised"}
BothListed == sys.all.ok /\ sys.running.ok
RunningLines == Split(sys.running.val.stdout, "\n")
IsErrorText(text) == Len(text) >= 5 /\ SubSeq(text, 1, 5) = "Error"

\* C27: list_services returns both services and running_count: when both
\* queries succeed, services is the unfiltered listing as printed and
\* running_count the number of lines of the running listing that contain
\* '.service'; when the first or the second query fails, running_count is 0 and
\* services is an error message, so that a running_count other than 0 always
\* comes with the listing.
C27_ListingAndCount ==
    ServicesEnded =>
        /\ pc = "done"
        /\ DOMAIN result = {"services", "running_count"}
        /\ BothListed =>
               /\ result.services = sys.all.val.stdout
               /\ result.running_count =
                      Cardinality({i \in 1..Len(RunningLines) :
                                      Contains(RunningLines[i], ".service")})
        /\ ~BothListed => result.running_count = 0 /\ IsErrorText(result.services)
        /\ result.running_count # 0 => sys.all.ok /\ result.services = sys.all.val.stdout

\* two running units counted beside a listing that is not the running one
C27_Witness ==
    /\ ServicesEnded /\ BothListed
    /\ sys.all.val.stdout # sys.running.val.stdout
    /\ result.running_count = 2
    /\ result.services = sys.all.val.stdout

-----------------------------------------------------------------------------
(* Properties of the scalar collectors get_system_info and get_cpu_info *)

ScalarEnded == op \in {"get_system_info", "get_cpu_info"} /\ pc \in {"done", "raised"}
SystemFields == {"hostname", "os", "os_version", "kernel", "architecture", "uptime", "boot_time"}
CpuFields ==
    {"cpu_model", "physical_cores", "logical_cores", "cpu_freq_current", "cpu_freq_min",
     "cpu_freq_max", "cpu_usage_per_core", "overall_cpu_usage", "load_average_1m",
     "load_average_5m", "load_average_15m"}

\* C17: whichever of their sources fail (os-release missing or unreadable,
\* uptime missing or failing, cpuinfo missing, unreadable or malformed, the
\* frequency facility failing, the load average unavailable), the scalar
\* collectors return their whole record, the failed fields holding sentinels.
C17_ScalarNeverFails ==
    ScalarEnded =>
        /\ pc = "done"
        /\ DOMAIN result = IF op = "get_system_info" THEN SystemFields ELSE CpuFields

-----------------------------------------------------------------------------
(* Properties of the command-line wrapper *)

CliEnded == op \in CliCommands /\ exit # NONE
SystemctlAbsent ==
    \/ op = "list_services" /\ ~sys.all.ok /\ sys.all.exc = "FileNotFoundError"
    \/ op = "get_service_status" /\ ~sys.status.ok /\ sys.status.exc = "FileNotFoundError"

\* C18: when the systemctl binary is missing, the service commands end with
\* an error on standard error and a non-zero exit status, not with a record
\* on standard output and exit status zero.
C18_MissingSystemctlAborts ==
    (CliEnded /\ SystemctlAbsent) =>
        /\ exit # Some(0)
        /\ stderr # <<>>
        /\ stdout = <<>>

\* the structured errors of a message
ErrorTexts(msg) == {"{\n  \"error\": \"" \o msg \o "\"\n}", "ERROR: " \o msg}

\* C19: every subcommand ends in exactly one of two ways: the collector
\* returned a record (an in-band error included) and the formatted record is
\* on standard output with exit status 0, or the collector raised and a
\* structured error is on standard error, nothing on standard output, and
\* the exit status is not 0.  Nothing is written before that.
C19_OneOfTwoEndings ==
    op \in CliCommands =>
        IF exit = NONE THEN stdout = <<>> /\ stderr = <<>>
        ELSE IF pc = "done"
        THEN /\ stdout \in {<<[json |-> result]>>, <<[text |-> result]>>}
             /\ stderr = <<>>
             /\ exit = Some(0)
        ELSE /\ pc = "raised"
             /\ stdout = <<>>
             /\ Len(stderr) >= 1 /\ stderr[1] \in ErrorTexts(ExcMessage(err[1]))
             /\ exit # Some(0)

\* an unreadable /etc/os-release ends `system info` on standard error
C19_Witness ==
    /\ op = "get_system_info" /\ pc = "raised"
    /\ stderr = <<"ERROR: [Errno 13] Permission denied", "Aborted!">>
    /\ stdout = <<>>
    /\ exit = Some(1)

-----------------------------------------------------------------------------
(* Properties of _human_readable_size *)

SizeDone == op = "_human_readable_size" /\ pc = "done"
AllDigitsMax(d) == \A i \in 1..Len(d) : d[i] = 1023
\* floor(log_1024(b + 1)) and floor(log_1024(b)) (0 for b = 0), from the digits
LogOfSuccessor(d) == Len(d) - 1 + (IF AllDigitsMax(d) THEN 1 ELSE 0)
LogOfCount(d) == Len(d) - 1
SuffixAt(n) == <<"", "K", "M", "G", "T", "P">>[Min(n, 5) + 1]

\* C20 as stated: the suffix is the one at index floor(log_1024(b + 1)),
\* clamped to none..P, and the numeric part is in [0, 1024) unless the suffix
\* is P.
C20_SuffixOfSuccessorLog ==
    SizeDone =>
        /\ loc.unit = SuffixAt(LogOfSuccessor(arg.size_bytes))
        /\ loc.unit # "P" => loc.tenths >= 0 /\ loc.tenths < 10240

\* C20, amended: the suffix is the one at index floor(log_1024(b)) (none for
\* b = 0), clamped to none..P, and the numeric part as printed, to one
\* decimal, is in [0, 1024.0] unless the suffix is P: a scaled value of 1023.95
\* or more is printed as 1024.0.
C20_SuffixOfLogAndPrintedPart ==
    SizeDone =>
        /\ loc.unit = SuffixAt(LogOfCount(arg.size_bytes))
        /\ loc.unit # "P" => loc.tenths >= 0 /\ loc.tenths <= 10240
        /\ result = ToString(loc.tenths \div 10) \o "." \o ToString(loc.tenths % 10)
                        \o loc.unit

\* 1023 * 1024 + 973 bytes are printed as 1024.0K
C20_Witness ==
    /\ SizeDone
    /\ arg.size_bytes = <<1023, 973>>
    /\ result = "1024.0K"

\* C21: for every byte count of 1024^5 or more (1024^6 and more included) the
\* converter returns the P suffix with the numeric part b / 1024^5, five
\* divisions by 1024 and no more, and it returns a value for every b >= 0.
C21_PetaAfterFiveDivisions ==
    SizeDone =>
        /\ Len(result) > 0 /\ err = NONE
        /\ Len(arg.size_bytes) >= 6 =>
               /\ loc.unit = "P"
               /\ loc.tenths = Tenths(arg.size_bytes, 5)

-----------------------------------------------------------------------------
(* Properties of all collectors *)

\* the journalctl options that act on the journal instead of reading it
JournalActions ==
    {"--rotate", "--flush", "--sync", "--relinquish-var", "--smart-relinquish-var",
     "--vacuum-size", "--vacuum-time", "--vacuum-files", "--setup-keys",
     "--update-catalog"}
\* a command line that only reads: the listing and status verbs of systemctl,
\* a journalctl that reads, the ss listing, uptime
IsQuery(argv) ==
    \/ argv[1] = "systemctl" /\ Len(argv) >= 2 /\ argv[2] \in {"list-units", "status"}
    \/ argv[1] = "journalctl" /\ \A i \in 2..Len(argv) : argv[i] \notin JournalActions
    \/ argv = <<"ss", "-tulnp">>
    \/ argv \in {<<"uptime", "-p">>, <<"uptime", "-s">>}
OnlyQueries == \A i \in 1..Len(calls) : IsQuery(calls[i])

\* C22: no collector changes the state of the system: no step of a collector
\* or of the command line changes what the operating system answers, and every
\* external command a collector runs is a query (systemctl list-units or
\* status, a reading journalctl, the ss listing, uptime).
C22_ReadOnly == []OnlyQueries /\ [][sys' = sys]_vars

\* a unit's status or its log was queried and the collector returned
C22_Witness ==
    /\ pc = "done" /\ Len(calls) = 1
    /\ calls[1][1] \in {"systemctl", "journalctl"}
    /\ calls[1][2] \in {"status", "-u"}

-----------------------------------------------------------------------------
(* Properties of get_process_info: failures and repeated reads *)

InfoEnded == op = "get_process_info" /\ pc \in {"done", "raised"}
\* the last psutil call of the lookup, which is the one that failed if one did
LastQuery == queries[Len(queries)]
QueryFailed == queries # <<>> /\ LastQuery.out # "ok"
NoLongerThere(out) == out \in {"NoSuchProcess", "ZombieProcess"}
\* the open-files call failed with an exception of lines 129-130
OpenFilesSkipped ==
    /\ QueryFailed /\ LastQuery.q = "open_files"
    /\ (NoLongerThere(LastQuery.out) \/ LastQuery.out = "AccessDenied")
NotFoundText == "Process " \o ToString(pid) \o " not found"
DeniedText == "Access denied to process " \o ToString(pid) \o " (try sudo)"
\* the error field describes the failure of the last call
ErrorDescribesFailure ==
    /\ HasError
    /\ NoLongerThere(LastQuery.out) => result.error = NotFoundText
    /\ LastQuery.out = "AccessDenied" =>
           result.error = DeniedText /\ result.error # NotFoundText
    /\ (~NoLongerThere(LastQuery.out) /\ LastQuery.out # "AccessDenied") =>
           result.error = "Error getting process info: " \o LastQuery.out

\* C28 as stated: get_process_info never lets an exception out, and whatever
\* failure a psutil call reports at any of the sub-queries, the record returned
\* has an error field that describes it, access denied by a message other than
\* that of not found.
C28_EveryFailureInBand ==
    InfoEnded =>
        /\ pc = "done" /\ err = NONE
        /\ QueryFailed => ErrorDescribesFailure

\* C28, amended: get_process_info never lets an exception out; a failure at
\* any sub-query is described by the error field of the record returned,
\* access denied by a message other than that of not found, except at the
\* open-files query, where access denied and a process no longer there give
\* open_files = 0 and no error field.
C28_FailureInBandButOpenFiles ==
    InfoEnded =>
        /\ pc = "done" /\ err = NONE
        /\ (QueryFailed /\ ~OpenFilesSkipped) => ErrorDescribesFailure
        /\ OpenFilesSkipped => ~HasError /\ result.open_files = 0

\* the parent pid could not be read for lack of permission
C28_Witness ==
    /\ InfoEnded /\ QueryFailed
    /\ LastQuery.q = "ppid" /\ LastQuery.out = "AccessDenied"
    /\ result.error = DeniedText

\* C29: in a record without error, exe is not empty and cmdline is not empty
\* when name is not empty, whatever the two reads of the executable path and
\* the two reads of the command line return.
C29_ExeAndCmdlineNonEmpty ==
    (InfoDone /\ pid >= 1 /\ ~HasError) =>
        /\ result.exe # ""
        /\ result.name # "" => result.cmdline # ""

====
